---- MODULE Spec2Model ----
(***************************************************************************)
(* Model of the NextNode logger: the batching logger of core/logger.ts,    *)
(* the transport-dispatching logger of location.ts and the HTTP transport  *)
(* of transports/http.ts.  Each component has its own specification        *)
(* (SpecCore, SpecDispatch, SpecHttp); the variables of the components a   *)
(* specification does not exercise stay at their constructed values.       *)
(***************************************************************************)
EXTENDS Integers, Sequences, FiniteSets, TLC

VARIABLES
    \* ---- core/logger.ts : NextNodeLogger with batching
    batchConfig,    \* [enabled, maxSize, flushInterval, maxDelay]
    batchState,     \* [buffer, timer, firstEntryTime]
    timers,         \* the runtime's pending setTimeout table: set of [id, due]
    timerSeq,       \* number of setTimeout handles handed out so far
    now,            \* Date.now()
    console,        \* the console calls made, in order: [method, id]
    logged,         \* history: the entries created by log calls, in order
    flushes,        \* history: every non-empty flushBatch: [by, entries]
    thunkCalls,     \* history: per log call, [lazy, count]: invocations of its message function
    thrownWrites,   \* how many flushes or writes ended in an exception
    \* ---- location.ts : NextNodeLogger dispatching to transports
    dconfig,        \* [minLevel, silent]
    transports,     \* the configured transports: sequence of behaviours
    invocations,    \* per transport: the entry ids its log() was called with
    calls,          \* history: the log calls made: [id, level, outcome]
    \* ---- transports/http.ts : HttpTransport
    hconfig,        \* [batchSize, maxRetries]
    hbuffer,        \* this.buffer
    flushTimer,     \* this.flushTimer is set (setInterval running)
    isFlushing,     \* this.isFlushing
    batches,        \* one record per flush() that captured: [entries, pc, attempt, outcome]
    requests,       \* history: every send() issued: [batch, entries]
    errorCalls,     \* history: every onError call: [batch, entries, requestsBefore]
    successCalls,   \* history: every onSuccess call: [batch, count]
    hlogged,        \* history: the entries passed to log(), in order
    disposals,      \* history: the dispose() calls: [buffered, awaiting, resolved]
    \* ---- transports/http.ts : new HttpTransport(config)
    ctorInput,      \* the config passed: [endpoint, headers, batchSize, maxRetries]
    ctorPc,         \* "new", "endpointOk", "headersOk", "constructed", "threw"
    ctorError,      \* which check threw: "none", "url", "protocol", "header"
    \* ---- location.ts : NextNodeLogger.dispose
    disposeKinds,   \* per transport: what its dispose is ("none" when it has none)
    disposeState,   \* per transport: "idle", "pending", "resolved", "rejected"
    loggerDispose,  \* the promise of logger.dispose(): "idle", "pending", "resolved", "rejected"
    \* ---- core/logger.ts extractScope, formatters/json.ts
    payload,        \* the object argument of a log call: [present, map]
    builtEntry,     \* the LogEntry built from it
    jsonOut,        \* what formatAsJson / formatAsJsonPretty returned: [threw, indent, top]
    productionOut,  \* what formatForProduction returned: [threw, indent, top]
    buildPc,        \* "input", "built", "formatted"
    \* ---- formatters/console-node.ts : the scope colour cache
    scopeColorMap,  \* the Map, in insertion order: sequence of [scope, color]
    scopeColorIndex,
    scopeSeq,       \* how many distinct non-empty scopes have been used since the reset
    \* ---- utils/location.ts, location.ts : parseLocation
    stackInput,     \* what new Error().stack gives: [kind, text]
    isProduction,   \* the argument of parseLocation
    locCopy,        \* the copy of parseLocation that ran: "utils" or "root"
    callerLine,     \* history: the line getCallerStackLine returned, if it ran
    patternInputs,  \* history: the lengths of the strings the patterns were run on
    locResult,      \* what parseLocation returned
    locPc,          \* "input", "returned"
    \* ---- unnamed/part_008, unnamed/part_014 : safeStringify
    objectGraph,    \* the objects reachable from the argument: object -> key -> value
    stringified,    \* what safeStringify returned, as the JSON tree the string denotes
    \* ---- transports/http.ts, unnamed/part_002 : sendWithRetry
    retryClass,     \* whose sendWithRetry runs: "HttpTransport" or "HTTPTransport"
    retryLimit,     \* config.maxRetries (HttpTransport) / config.retries (HTTPTransport)
    retryAttempt,   \* the loop variable attempt
    retryWaits,     \* history: the delays slept so far, in order
    retryPc,        \* "idle", "send", "sleep", "returned", "threw"
    \* ---- unnamed/part_002 : HTTPTransport write / flush / close / flushBatch
    transportConfig,  \* [batchSize]
    transportBatch,   \* this.batchState: [entries, timer]
    pendingTimeouts,  \* the setTimeout handles that were neither cleared nor fired
    timeoutSeq,       \* how many setTimeout calls were made
    written,          \* how many write() calls were made
    flushLog,         \* history: per flushBatch that sent, [by, entries, pendingAfter]
    \* ---- transports/http.ts : one batch through flush / sendWithRetry / send
    sendConfig,       \* [maxRetries, onSuccessThrows]
    sendAttempt,      \* the loop variable attempt of sendWithRetry
    sendPc,           \* "idle", "fetching", "sleeping", "done"
    signalAborted,    \* controller.signal.aborted of the send in progress
    timeoutPending,   \* the setTimeout of the send in progress has neither fired nor been cleared
    sendRequests,     \* history: the entries of each fetch, in order
    attemptLog,       \* history: per settled attempt, [outcome, wait]
    callbackLog,      \* history: the onSuccess / onError calls, in order
    \* ---- transports/file.ts : FileTransport write / flush / close / processQueue
    writeQueue,       \* this.writeQueue: the entries of the queued write operations
    isWriting,        \* this.isWriting
    executing,        \* the write operations in progress: [owner, entry, step]
    fileContent,      \* the entries of the lines appended to the file, in order
    fileCalls,        \* how many write() / flush() / close() calls were made
    fileWrites,       \* how many write() calls were made
    fileFailures,     \* how many write operations threw
    flushResults      \* history: per flush() / close() call, [call, owner, writing, before,
                      \* status, appended, remaining]: what was unwritten before the
                      \* call, and what was appended and unwritten when it settled

coreVars == <<batchConfig, batchState, timers, timerSeq, now, console, logged, flushes,
              thunkCalls, thrownWrites>>
dispatchVars == <<dconfig, transports, invocations, calls>>
httpVars == <<hconfig, hbuffer, flushTimer, isFlushing, batches, requests,
              errorCalls, successCalls, hlogged, disposals>>
ctorVars == <<ctorInput, ctorPc, ctorError>>
disposeVars == <<disposeKinds, disposeState, loggerDispose>>
buildVars == <<payload, builtEntry, jsonOut, productionOut, buildPc>>
cacheVars == <<scopeColorMap, scopeColorIndex, scopeSeq>>
locationVars == <<stackInput, isProduction, locCopy, callerLine, patternInputs,
                  locResult, locPc>>
stringifyVars == <<objectGraph, stringified>>
retryVars == <<retryClass, retryLimit, retryAttempt, retryWaits, retryPc>>
flushTimerVars == <<transportConfig, transportBatch, pendingTimeouts, timeoutSeq,
                    written, flushLog>>
sendVars == <<sendConfig, sendAttempt, sendPc, signalAborted, timeoutPending,
              sendRequests, attemptLog, callbackLog>>
fileVars == <<writeQueue, isWriting, executing, fileContent, fileCalls, fileWrites,
              fileFailures, flushResults>>
laterVars == <<cacheVars, locationVars, stringifyVars, retryVars, flushTimerVars,
               sendVars, fileVars>>
restVars == <<ctorVars, disposeVars, buildVars, laterVars>>
vars == <<coreVars, dispatchVars, httpVars, restVars>>

\* ---------------------------------------------------------------- bounds
MaxLogs == 3          \* log calls made on the core logger
MaxTime == 3          \* clock ticks after construction
MaxSizeBound == 3     \* batch.maxSize ranges over 1..MaxSizeBound
MaxInterval == 3      \* batch.flushInterval ranges over 1..MaxInterval
MaxDelayBound == 2    \* batch.maxDelay ranges over 0..MaxDelayBound
MaxCalls == 2         \* log calls made on the dispatching logger
MaxTransports == 2    \* configured transports: 1..MaxTransports
MaxHttpLogs == 3      \* entries passed to HttpTransport.log
MaxBatchSize == 2     \* batchSize ranges over 1..MaxBatchSize
MaxRetriesBound == 2  \* maxRetries ranges over 0..MaxRetriesBound
MaxDisposeCalls == 1  \* dispose() calls made on the HTTP transport
MaxHeaders == 2       \* custom header keys in one config
MaxPayloadKeys == 2   \* keys of the object argument of a log call
MaxScopes == 102      \* distinct non-empty scopes coloured between two resets
MaxStackLines == 2    \* lines of a stack text after its first line
MaxNameLength == 520  \* characters of the function name of the long frame
MaxBackoffRetries == 11 \* the retry limit of sendWithRetry ranges over 0..MaxBackoffRetries
MaxWrites == 4        \* write() calls made on the HTTPTransport
MaxTransportBatch == 5  \* config.batchSize of the HTTPTransport ranges over 1..MaxTransportBatch
MaxObjects == 2       \* objects of the graph passed to safeStringify
MaxThrownWrites == 1  \* console writes that throw
MaxSendRetries == 3   \* maxRetries of the transport whose send is followed: 0..MaxSendRetries
MaxFileWrites == 3    \* write() calls made on the FileTransport
MaxFileFlushes == 2   \* flush() / close() calls made on the FileTransport
MaxFileFailures == 1  \* write operations of the FileTransport that throw

\* ---------------------------------------------------------------- helpers
\* An optional value (null | v) is <<>> or <<v>>.
Null == <<>>
Some(v) == <<v>>

IsPrefix(s, t) == Len(s) <= Len(t) /\ SubSeq(t, 1, Len(s)) = s

Last(s) == s[Len(s)]

Range(s) == {s[i] : i \in 1..Len(s)}

\* ======================================================================
\* core/logger.ts
\* ======================================================================
CoreLevels == {"info", "warn", "error"}

CONSOLE_METHODS == [info |-> "log", warn |-> "warn", error |-> "error"]

EmptyBatchState == [buffer |-> <<>>, timer |-> Null, firstEntryTime |-> Null]

\* A message argument is a string or a function returning one.
Messages == {"string", "function"}

\* isLazyMessage(message): typeof message === 'function'
IsLazyMessage(message) == message = "function"

\* resolveMessage(message): isLazyMessage(message) ? message() : message;
\* either way the result is a string.
ResolveMessage(message) == IF IsLazyMessage(message) THEN "string" ELSE message

\* (mutation of ResolveMessageCalls: the function is called twice)
ResolveMessageCalls_Twice(message) == IF IsLazyMessage(message) THEN 2 ELSE 0

\* How many times resolveMessage invokes the message function.
ResolveMessageCalls(message) == IF IsLazyMessage(message) THEN 1 ELSE 0

\* createLogEntry: the entry is identified by the order of its creation and
\* carries the resolved message.
CreateLogEntry(level, message) ==
    [id |-> Len(logged) + 1, level |-> level, message |-> ResolveMessage(message)]

\* output(level, formatLogEntry(entry)): one console call per entry.
Output(entry) == [method |-> CONSOLE_METHODS[entry.level], id |-> entry.id]

\* The console calls flushBatch makes: none for an empty buffer, else one per
\* buffered entry, in buffer order.
FlushBatchOutput(buffer) == [i \in 1..Len(buffer) |-> Output(buffer[i])]

\* The batch state flushBatch leaves: untouched on an empty buffer (early
\* return), else reset.
FlushBatchState(bs) == IF Len(bs.buffer) = 0 THEN bs ELSE EmptyBatchState

\* (mutation of AppendEntry: the new entry put in front of the buffer)
AppendEntry_Prepend(buffer, entry) == <<entry>> \o buffer

\* buffer: [...this.batchState.buffer, entry]
AppendEntry(buffer, entry) == Append(buffer, entry)

\* firstEntryTime: this.batchState.firstEntryTime ?? now
FirstEntryTime(first, t) == IF first = Null THEN Some(t) ELSE first

\* (mutation of ShouldFlushBatch: size compared with > instead of >=)
ShouldFlushBatch_SizeOffByOne(bs, t) ==
    \/ Len(bs.buffer) > batchConfig.maxSize
    \/ /\ bs.firstEntryTime # Null
       /\ bs.firstEntryTime[1] # 0
       /\ t - bs.firstEntryTime[1] >= batchConfig.maxDelay

\* (mutation of ShouldFlushBatch: max delay compared with > instead of >=)
ShouldFlushBatch_StrictDelay(bs, t) ==
    \/ Len(bs.buffer) >= batchConfig.maxSize
    \/ /\ bs.firstEntryTime # Null
       /\ bs.firstEntryTime[1] # 0
       /\ t - bs.firstEntryTime[1] > batchConfig.maxDelay

\* shouldFlushBatch, evaluated at Date.now() = t
ShouldFlushBatch(bs, t) ==
    \/ Len(bs.buffer) >= batchConfig.maxSize
    \/ /\ bs.firstEntryTime # Null
       /\ bs.firstEntryTime[1] # 0      \* a 0 timestamp is falsy
       /\ t - bs.firstEntryTime[1] >= batchConfig.maxDelay

\* Which trigger made shouldFlushBatch answer true (history only).
FlushTrigger(bs) ==
    IF Len(bs.buffer) >= batchConfig.maxSize THEN "size" ELSE "delay"

\* (mutation of ClearTimeout: the timer is left pending)
ClearTimeout_Noop(table, handle) == table

\* clearTimeout(handle) when the handle is set.
ClearTimeout(table, handle) ==
    IF handle = Null THEN table ELSE {t \in table : t.id # handle[1]}

\* (mutation of ScheduleNeeded: the "already scheduled" guard dropped)
ScheduleNeeded_NoGuard(bs) == TRUE

\* scheduleBatchFlush: nothing when a timer is recorded, else setTimeout.
ScheduleNeeded(bs) == bs.timer = Null

\* What one non-empty flushBatch did (history): its trigger and the entries it drained.
FlushRecord(by, buffer) == [by |-> by, entries |-> buffer]

DoFlush(by, bs) ==
    /\ console' = console \o FlushBatchOutput(bs.buffer)
    /\ batchState' = FlushBatchState(bs)
    /\ flushes' = IF Len(bs.buffer) = 0 THEN flushes
                  ELSE Append(flushes, FlushRecord(by, bs.buffer))

\* info / warn / error -> log(level, message, object)
CoreLogMessage(level, message) ==
    /\ Len(logged) < MaxLogs
    /\ LET entry == CreateLogEntry(level, message) IN
       /\ logged' = Append(logged, entry)
       /\ thunkCalls' = Append(thunkCalls, [lazy |-> IsLazyMessage(message),
                                            count |-> ResolveMessageCalls(message)])
       /\ IF ~batchConfig.enabled
          THEN /\ console' = Append(console, Output(entry))
               /\ UNCHANGED <<batchState, timers, timerSeq, flushes>>
          ELSE LET bs == [buffer |-> AppendEntry(batchState.buffer, entry),
                          timer |-> batchState.timer,
                          firstEntryTime |->
                              FirstEntryTime(batchState.firstEntryTime, now)]
               IN IF ShouldFlushBatch(bs, now)
                  THEN /\ timers' = ClearTimeout(timers, bs.timer)
                       /\ DoFlush(FlushTrigger(bs), bs)
                       /\ UNCHANGED timerSeq
                  ELSE /\ IF ScheduleNeeded(bs)
                          THEN /\ timerSeq' = timerSeq + 1
                               /\ timers' = timers \cup
                                    {[id |-> timerSeq + 1,
                                      due |-> now + batchConfig.flushInterval]}
                               /\ batchState' = [bs EXCEPT !.timer = Some(timerSeq + 1)]
                          ELSE /\ batchState' = bs
                               /\ UNCHANGED <<timers, timerSeq>>
                       /\ UNCHANGED <<console, flushes>>
    /\ UNCHANGED <<batchConfig, now, thrownWrites, dispatchVars, httpVars, restVars>>

\* A log call whose message is a plain string.
CoreLog(level) == CoreLogMessage(level, "string")

\* flush(): clear the recorded timer, then flushBatch.
CoreFlush ==
    /\ timers' = ClearTimeout(timers, batchState.timer)
    /\ DoFlush("manual", batchState)
    /\ UNCHANGED <<batchConfig, timerSeq, now, logged, thunkCalls, thrownWrites,
                   dispatchVars, httpVars, restVars>>

\* The setTimeout callback of scheduleBatchFlush runs once its delay has passed.
CoreTimerFires ==
    \E t \in timers :
        /\ now >= t.due
        /\ timers' = timers \ {t}
        /\ DoFlush("timer", batchState)
        /\ UNCHANGED <<batchConfig, timerSeq, now, logged, thunkCalls, thrownWrites,
                       dispatchVars, httpVars, restVars>>

\* Time passes.
CoreTick ==
    /\ now < 1 + MaxTime
    /\ now' = now + 1
    /\ UNCHANGED <<batchConfig, batchState, timers, timerSeq, console, logged,
                   flushes, thunkCalls, thrownWrites, dispatchVars, httpVars, restVars>>

\* flushBatch when formatLogEntry or the console call of the k-th buffered
\* entry throws: the entries before it have been written, the loop is left
\* by the exception and the reset of batchState after the loop is not
\* reached. Nothing in flushBatch, log, flush or the timer callback catches.
DoFlushThrowing(bs, k) ==
    /\ console' = console \o FlushBatchOutput(SubSeq(bs.buffer, 1, k - 1))
    /\ batchState' = bs
    /\ thrownWrites' = thrownWrites + 1
    /\ UNCHANGED flushes

\* A log call that throws to its caller: without batching the write of its
\* own entry throws; with batching the entry is buffered, the flush it
\* triggers clears the timer and throws at the k-th entry.
CoreLogThrows(level) ==
    /\ Len(logged) < MaxLogs
    /\ thrownWrites < MaxThrownWrites
    /\ LET entry == CreateLogEntry(level, "string")
           bs == [buffer |-> AppendEntry(batchState.buffer, entry),
                  timer |-> batchState.timer,
                  firstEntryTime |-> FirstEntryTime(batchState.firstEntryTime, now)]
       IN /\ logged' = Append(logged, entry)
          /\ thunkCalls' = Append(thunkCalls, [lazy |-> FALSE, count |-> 0])
          /\ IF ~batchConfig.enabled
             THEN /\ thrownWrites' = thrownWrites + 1
                  /\ UNCHANGED <<batchState, timers, console, flushes>>
             ELSE /\ ShouldFlushBatch(bs, now)
                  /\ timers' = ClearTimeout(timers, bs.timer)
                  /\ \E k \in 1..Len(bs.buffer) : DoFlushThrowing(bs, k)
    /\ UNCHANGED <<batchConfig, timerSeq, now, dispatchVars, httpVars, restVars>>

\* flush() that throws at the k-th entry: the recorded timer has been cleared.
CoreFlushThrows ==
    /\ thrownWrites < MaxThrownWrites
    /\ timers' = ClearTimeout(timers, batchState.timer)
    /\ \E k \in 1..Len(batchState.buffer) : DoFlushThrowing(batchState, k)
    /\ UNCHANGED <<batchConfig, timerSeq, now, logged, thunkCalls,
                   dispatchVars, httpVars, restVars>>

\* The timer callback throws at the k-th entry: the timer has fired.
CoreTimerFiresThrows ==
    /\ thrownWrites < MaxThrownWrites
    /\ \E t \in timers :
          /\ now >= t.due
          /\ timers' = timers \ {t}
          /\ \E k \in 1..Len(batchState.buffer) : DoFlushThrowing(batchState, k)
    /\ UNCHANGED <<batchConfig, timerSeq, now, logged, thunkCalls,
                   dispatchVars, httpVars, restVars>>

CoreConstructed ==
    /\ batchState = EmptyBatchState
    /\ timers = {}
    /\ timerSeq = 0
    /\ now = 1                      \* Date.now() is a positive epoch time
    /\ console = <<>>
    /\ logged = <<>>
    /\ thunkCalls = <<>>
    /\ flushes = <<>>
    /\ thrownWrites = 0

BatchConfigs ==
    [enabled : BOOLEAN, maxSize : 1..MaxSizeBound,
     flushInterval : 1..MaxInterval, maxDelay : 0..MaxDelayBound]


\* ======================================================================
\* location.ts : NextNodeLogger dispatching to transports
\* ======================================================================
DispatchLevels == {"debug", "info", "warn", "error"}

LOG_LEVEL_PRIORITY == [debug |-> 0, info |-> 1, warn |-> 2, error |-> 3]

\* What a transport's log(entry) does: return, throw synchronously, or return
\* a promise that rejects.
TransportBehaviours == {"ok", "throws", "rejects"}

ShouldLog(level) ==
    IF dconfig.silent THEN FALSE
    ELSE LOG_LEVEL_PRIORITY[level] >= LOG_LEVEL_PRIORITY[dconfig.minLevel]

\* for (const transport of this.transports) transport.log(entry): the index
\* of the last transport the loop calls. A synchronous throw leaves the loop
\* (there is no try/catch around the call); a returned promise is not awaited.
LastInvoked(ts) ==
    IF \E i \in 1..Len(ts) : ts[i] = "throws"
    THEN CHOOSE i \in 1..Len(ts) :
            /\ ts[i] = "throws"
            /\ \A j \in 1..(i - 1) : ts[j] # "throws"
    ELSE Len(ts)

\* How the log method ends for its caller.
LogOutcome(ts) ==
    IF \E i \in 1..Len(ts) : ts[i] = "throws" THEN "threw" ELSE "returned"

\* debug / info / warn / error -> log(level, message, object)
DispatchLog(level) ==
    /\ Len(calls) < MaxCalls
    /\ LET id == Len(calls) + 1 IN
       IF ~ShouldLog(level)
       THEN /\ calls' = Append(calls, [id |-> id, level |-> level,
                                       outcome |-> "returned"])
            /\ UNCHANGED invocations
       ELSE /\ invocations' =
                 [i \in 1..Len(transports) |->
                     IF i <= LastInvoked(transports)
                     THEN Append(invocations[i], id)
                     ELSE invocations[i]]
            /\ calls' = Append(calls, [id |-> id, level |-> level,
                                       outcome |-> LogOutcome(transports)])
    /\ UNCHANGED <<dconfig, transports, coreVars, httpVars, restVars>>

DispatchConfigs == [minLevel : DispatchLevels, silent : BOOLEAN]

TransportLists ==
    UNION {[1..n -> TransportBehaviours] : n \in 1..MaxTransports}

DispatchConstructed ==
    /\ invocations = [i \in 1..Len(transports) |-> <<>>]
    /\ calls = <<>>

\* ======================================================================
\* location.ts : NextNodeLogger.dispose
\* ======================================================================
\* What a transport's dispose is: absent, a function returning nothing, or
\* an async function whose promise later resolves or rejects.
DisposeKinds == {"none", "sync", "resolves", "rejects"}

\* .filter('dispose' in t && typeof t.dispose === 'function')
HasDispose(kind) == kind # "none"

\* .map(t => t.dispose()): the state of the value each call returns. A call
\* that returns no promise counts as resolved for Promise.all.
DisposeInvoked(kind) ==
    IF ~HasDispose(kind) THEN "idle"
    ELSE IF kind = "sync" THEN "resolved"
    ELSE "pending"

\* Promise.all(disposals) rejects as soon as one element has rejected and
\* resolves once all have resolved; otherwise it stays pending.
PromiseAll(states) ==
    IF \E i \in DOMAIN states : states[i] = "rejected" THEN "rejected"
    ELSE IF \A i \in DOMAIN states : states[i] # "pending" THEN "resolved"
    ELSE "pending"

\* dispose(): invoke every transport's dispose, then await Promise.all.
LoggerDispose ==
    /\ loggerDispose = "idle"
    /\ disposeState' = [i \in 1..Len(transports) |-> DisposeInvoked(disposeKinds[i])]
    /\ loggerDispose' = "pending"
    /\ UNCHANGED <<disposeKinds, ctorVars, buildVars, coreVars, dispatchVars, httpVars,
                   laterVars>>

\* The promise returned by transport i's dispose settles.
TransportDisposeSettles(i) ==
    /\ disposeState[i] = "pending"
    /\ disposeState' = [disposeState EXCEPT ![i] =
                            IF disposeKinds[i] = "rejects" THEN "rejected" ELSE "resolved"]
    /\ UNCHANGED <<disposeKinds, loggerDispose, ctorVars, buildVars, coreVars,
                   dispatchVars, httpVars, laterVars>>

\* The continuation of await Promise.all(disposals) runs: dispose()'s
\* promise settles as Promise.all did.
LoggerDisposeSettles ==
    /\ loggerDispose = "pending"
    /\ PromiseAll(disposeState) # "pending"
    /\ loggerDispose' = PromiseAll(disposeState)
    /\ UNCHANGED <<disposeKinds, disposeState, ctorVars, buildVars, coreVars,
                   dispatchVars, httpVars, laterVars>>

DisposeKindLists ==
    UNION {[1..n -> DisposeKinds] : n \in 1..MaxTransports}

\* No dispose() call made yet.
DisposeIdle ==
    /\ Len(disposeKinds) = Len(transports)
    /\ disposeState = [i \in 1..Len(transports) |-> "idle"]
    /\ loggerDispose = "idle"

\* ======================================================================
\* transports/http.ts : HttpTransport
\* ======================================================================
\* (mutation of FlushGuard: the in-flight check dropped)
FlushGuard_NoInFlightCheck(flushing, buffer) == Len(buffer) = 0

\* flush(): if (this.isFlushing || this.buffer.length === 0) return
FlushGuard(flushing, buffer) == flushing \/ Len(buffer) = 0

\* const entries = [...this.buffer]
CaptureEntries(buffer) == buffer

\* (mutation of BufferAfterSwap: the buffer is not replaced after the capture)
BufferAfterSwap_Keep(buffer) == buffer

\* this.buffer = []
BufferAfterSwap(buffer) == <<>>

\* sendWithRetry: for (let attempt = 0; attempt < this.config.maxRetries; attempt++)
RetryLoopContinues(attempt) == attempt < hconfig.maxRetries

\* sendWithRetry: if (attempt < this.config.maxRetries - 1) await this.sleep(...)
SleepsBeforeNextAttempt(attempt) == attempt < hconfig.maxRetries - 1

\* (mutation of ErrorEntries: onError given the live buffer instead of the capture)
ErrorEntries_LiveBuffer(entries, buffer) == buffer

\* The entries flush() hands to onError: the captured array.
ErrorEntries(entries, buffer) == entries

\* The synchronous part of flush(), run on buffer `buf`: the guard, the swap,
\* and sendWithRetry up to its first await (the first send, or the throw of
\* an empty retry loop, which the catch block handles in a later microtask).
StartFlush(buf) ==
    IF FlushGuard(isFlushing, buf)
    THEN /\ hbuffer' = buf
         /\ UNCHANGED <<isFlushing, batches, requests>>
    ELSE LET entries == CaptureEntries(buf)
             first == RetryLoopContinues(0)
         IN /\ isFlushing' = TRUE
            /\ hbuffer' = BufferAfterSwap(buf)
            /\ batches' = Append(batches,
                                 [entries |-> entries,
                                  pc |-> IF first THEN "sending" ELSE "rejected",
                                  attempt |-> 0,
                                  outcome |-> "pending"])
            /\ requests' = IF first
                           THEN Append(requests, [batch |-> Len(batches) + 1,
                                                  entries |-> entries])
                           ELSE requests

\* (mutation of ReachedBatchSize: > instead of >=)
ReachedBatchSize_OffByOne(buffer) == Len(buffer) > hconfig.batchSize

\* log(): if (this.buffer.length >= this.config.batchSize)
ReachedBatchSize(buffer) == Len(buffer) >= hconfig.batchSize

\* log(entry): push, then flush when the buffer has reached batchSize.
HttpLog ==
    /\ Len(hlogged) < MaxHttpLogs
    /\ LET id == Len(hlogged) + 1
           buf == Append(hbuffer, id)
       IN /\ hlogged' = Append(hlogged, [id |-> id, inflight |-> isFlushing])
          /\ IF ReachedBatchSize(buf)
             THEN StartFlush(buf)
             ELSE /\ hbuffer' = buf
                  /\ UNCHANGED <<isFlushing, batches, requests>>
    /\ UNCHANGED <<hconfig, flushTimer, errorCalls, successCalls, disposals,
                   coreVars, dispatchVars, restVars>>

\* The setInterval callback of startFlushTimer: void this.flush()
HttpTimerTick ==
    /\ flushTimer
    /\ StartFlush(hbuffer)
    /\ UNCHANGED <<hconfig, flushTimer, errorCalls, successCalls, hlogged,
                   disposals, coreVars, dispatchVars, restVars>>

\* An explicit flush() call.
HttpFlush ==
    /\ StartFlush(hbuffer)
    /\ UNCHANGED <<hconfig, flushTimer, errorCalls, successCalls, hlogged,
                   disposals, coreVars, dispatchVars, restVars>>

\* stopFlushTimer(): clearInterval, this.flushTimer = null
StopFlushTimer == FALSE

\* The promises of the dispose() calls that await the flush of batch i
\* resolve when that flush() returns.
ResolveDisposals(i) ==
    [k \in 1..Len(disposals) |->
        IF disposals[k].awaiting = i
        THEN [disposals[k] EXCEPT !.resolved = TRUE]
        ELSE disposals[k]]

\* dispose(): stopFlushTimer(), then await this.flush(). When the guard of
\* flush() returns at once, the awaited promise is already resolved and so
\* dispose()'s promise resolves without waiting for anything.
HttpDispose ==
    /\ Len(disposals) < MaxDisposeCalls
    /\ flushTimer' = StopFlushTimer
    /\ StartFlush(hbuffer)
    /\ disposals' = Append(disposals,
                           [buffered |-> hbuffer,
                            awaiting |-> IF FlushGuard(isFlushing, hbuffer)
                                         THEN 0 ELSE Len(batches) + 1,
                            resolved |-> FlushGuard(isFlushing, hbuffer)])
    /\ UNCHANGED <<hconfig, errorCalls, successCalls, hlogged,
                   coreVars, dispatchVars, restVars>>

\* send() resolves (a 2xx answer): sendWithRetry returns, flush() calls
\* onSuccess and its finally block resets isFlushing.
SendSucceeds(i) ==
    /\ batches[i].pc = "sending"
    /\ batches' = [batches EXCEPT ![i].pc = "done", ![i].outcome = "success"]
    /\ successCalls' = Append(successCalls,
                              [batch |-> i, count |-> Len(batches[i].entries)])
    /\ isFlushing' = FALSE
    /\ disposals' = ResolveDisposals(i)
    /\ UNCHANGED <<hconfig, hbuffer, flushTimer, requests, errorCalls, hlogged,
                   coreVars, dispatchVars, restVars>>

\* send() rejects (network error, non-2xx status, abort on timeout): the catch
\* of the retry loop sleeps before the next attempt, or the loop ends and
\* sendWithRetry throws.
SendFails(i) ==
    /\ batches[i].pc = "sending"
    /\ batches' = [batches EXCEPT
                     ![i].pc = IF SleepsBeforeNextAttempt(batches[i].attempt)
                               THEN "sleeping"
                               ELSE IF RetryLoopContinues(batches[i].attempt + 1)
                                    THEN "sending" ELSE "rejected",
                     ![i].attempt = IF SleepsBeforeNextAttempt(batches[i].attempt)
                                    THEN @ ELSE @ + 1]
    /\ requests' = IF /\ ~SleepsBeforeNextAttempt(batches[i].attempt)
                      /\ RetryLoopContinues(batches[i].attempt + 1)
                   THEN Append(requests, [batch |-> i, entries |-> batches[i].entries])
                   ELSE requests
    /\ UNCHANGED <<hconfig, hbuffer, flushTimer, isFlushing, errorCalls,
                   successCalls, hlogged, disposals, coreVars, dispatchVars, restVars>>

\* The backoff sleep ends: attempt++, then the next send or the final throw.
SleepEnds(i) ==
    /\ batches[i].pc = "sleeping"
    /\ LET next == batches[i].attempt + 1 IN
       /\ batches' = [batches EXCEPT
                        ![i].attempt = next,
                        ![i].pc = IF RetryLoopContinues(next)
                                  THEN "sending" ELSE "rejected"]
       /\ requests' = IF RetryLoopContinues(next)
                      THEN Append(requests, [batch |-> i,
                                             entries |-> batches[i].entries])
                      ELSE requests
    /\ UNCHANGED <<hconfig, hbuffer, flushTimer, isFlushing, errorCalls,
                   successCalls, hlogged, disposals, coreVars, dispatchVars, restVars>>

\* sendWithRetry has thrown: the catch block of flush() calls onError, the
\* finally block resets isFlushing.
FlushCatch(i) ==
    /\ batches[i].pc = "rejected"
    /\ batches' = [batches EXCEPT ![i].pc = "done", ![i].outcome = "failure"]
    /\ errorCalls' = Append(errorCalls,
                            [batch |-> i,
                             entries |-> ErrorEntries(batches[i].entries, hbuffer),
                             requestsBefore |-> Len(requests)])
    /\ isFlushing' = FALSE
    /\ disposals' = ResolveDisposals(i)
    /\ UNCHANGED <<hconfig, hbuffer, flushTimer, requests, successCalls, hlogged,
                   coreVars, dispatchVars, restVars>>

HttpConfigs == [batchSize : 1..MaxBatchSize, maxRetries : 0..MaxRetriesBound]

\* The state the constructor leaves: empty buffer, interval timer started.
HttpConstructed ==
    /\ hbuffer = <<>>
    /\ flushTimer = TRUE
    /\ isFlushing = FALSE
    /\ batches = <<>>
    /\ requests = <<>>
    /\ errorCalls = <<>>
    /\ successCalls = <<>>
    /\ hlogged = <<>>
    /\ disposals = <<>>

\* ======================================================================
\* transports/http.ts : the constructor's validation
\* ======================================================================
\* Header names and URL schemes are sequences of characters, so that
\* lowercasing is computed and not assumed.
UpperChars == <<"A","B","C","D","E","F","G","H","I","J","K","L","M",
                "N","O","P","Q","R","S","T","U","V","W","X","Y","Z">>
LowerChars == <<"a","b","c","d","e","f","g","h","i","j","k","l","m",
                "n","o","p","q","r","s","t","u","v","w","x","y","z">>

\* String.prototype.toLowerCase on one character, then on a string.
ToLowerChar(c) ==
    IF \E i \in 1..Len(UpperChars) : UpperChars[i] = c
    THEN LowerChars[CHOOSE i \in 1..Len(UpperChars) : UpperChars[i] = c]
    ELSE c

ToLowerCase(str) == [i \in 1..Len(str) |-> ToLowerChar(str[i])]

HTTP_PROTOCOL == <<"h","t","t","p",":">>
HTTPS_PROTOCOL == <<"h","t","t","p","s",":">>

\* The schemes the URL parser treats as special and that need a host.
HostSchemes == {HTTP_PROTOCOL, HTTPS_PROTOCOL,
                <<"f","t","p",":">>, <<"w","s",":">>, <<"w","s","s",":">>}

\* new URL(endpoint), for an endpoint given as [scheme, host]: scheme is
\* Null when the string has no "scheme:" prefix (empty, relative or
\* free text), host tells whether an authority with a host follows. The
\* parser throws (Null here) without a scheme, or without a host where the
\* scheme needs one; url.protocol is the lowercased scheme and the colon.
ParseURL(endpoint) ==
    IF endpoint.scheme = Null THEN Null
    ELSE LET protocol == ToLowerCase(endpoint.scheme[1]) \o <<":">> IN
         IF protocol \in HostSchemes /\ ~endpoint.host THEN Null
         ELSE Some([protocol |-> protocol])

\* (mutation of ValidProtocol: every scheme with a host passes)
ValidProtocol_AnyHostScheme(protocol) == protocol \in HostSchemes

\* validateEndpoint: url.protocol !== 'http:' && url.protocol !== 'https:'
\* throws.
ValidProtocol(protocol) == protocol = HTTP_PROTOCOL \/ protocol = HTTPS_PROTOCOL

\* validateEndpoint(endpoint): the error it throws, "none" when it returns.
ValidateEndpoint(endpoint) ==
    LET url == ParseURL(endpoint) IN
    IF url = Null THEN "url"
    ELSE IF ~ValidProtocol(url[1].protocol) THEN "protocol"
    ELSE "none"

RESTRICTED_HEADERS ==
    { <<"h","o","s","t">>,
      <<"c","o","n","t","e","n","t","-","l","e","n","g","t","h">>,
      <<"t","r","a","n","s","f","e","r","-","e","n","c","o","d","i","n","g">> }

\* (mutation of IsRestricted: the key is not lowercased)
IsRestricted_CaseSensitive(key) == key \in RESTRICTED_HEADERS

\* validateHeaders: RESTRICTED_HEADERS.has(key.toLowerCase())
IsRestricted(key) == ToLowerCase(key) \in RESTRICTED_HEADERS

\* validateHeaders(headers): headers is Null when absent, else the set of
\* the object's keys.
ValidateHeaders(headers) ==
    IF headers = Null THEN "none"
    ELSE IF \E key \in headers[1] : IsRestricted(key) THEN "header"
    ELSE "none"

\* constructor, first statement: this.validateEndpoint(config.endpoint)
CtorValidateEndpoint ==
    /\ ctorPc = "new"
    /\ ctorError' = ValidateEndpoint(ctorInput.endpoint)
    /\ ctorPc' = IF ctorError' = "none" THEN "endpointOk" ELSE "threw"
    /\ UNCHANGED <<ctorInput, httpVars, coreVars, dispatchVars, disposeVars,
                   buildVars, laterVars>>

\* constructor, second statement: this.validateHeaders(config.headers)
CtorValidateHeaders ==
    /\ ctorPc = "endpointOk"
    /\ ctorError' = ValidateHeaders(ctorInput.headers)
    /\ ctorPc' = IF ctorError' = "none" THEN "headersOk" ELSE "threw"
    /\ UNCHANGED <<ctorInput, httpVars, coreVars, dispatchVars, disposeVars,
                   buildVars, laterVars>>

\* constructor, rest: store the config, startFlushTimer()
CtorStart ==
    /\ ctorPc = "headersOk"
    /\ hconfig' = [batchSize |-> ctorInput.batchSize,
                   maxRetries |-> ctorInput.maxRetries]
    /\ flushTimer' = TRUE
    /\ ctorPc' = "constructed"
    /\ UNCHANGED <<ctorInput, ctorError, hbuffer, isFlushing, batches, requests,
                   errorCalls, successCalls, hlogged, disposals,
                   coreVars, dispatchVars, disposeVars, buildVars, laterVars>>

\* The methods exist only on a constructed transport.
Constructed == ctorPc = "constructed"

\* Sample endpoints: valid ones (upper-case scheme and localhost included),
\* other schemes, and strings that do not parse.
Endpoints ==
    { [scheme |-> Some(<<"h","t","t","p","s">>), host |-> TRUE],
      [scheme |-> Some(<<"h","t","t","p">>), host |-> TRUE],
      [scheme |-> Some(<<"H","T","T","P","S">>), host |-> TRUE],
      [scheme |-> Some(<<"h","t","t","p">>), host |-> FALSE],
      [scheme |-> Some(<<"j","a","v","a","s","c","r","i","p","t">>), host |-> FALSE],
      [scheme |-> Some(<<"f","i","l","e">>), host |-> FALSE],
      [scheme |-> Some(<<"d","a","t","a">>), host |-> FALSE],
      [scheme |-> Some(<<"f","t","p">>), host |-> TRUE],
      [scheme |-> Some(<<"w","s","s">>), host |-> TRUE],
      [scheme |-> Null, host |-> TRUE],
      [scheme |-> Null, host |-> FALSE] }

\* Sample header keys: restricted names in several casings, names that only
\* resemble them, and ordinary custom headers.
HeaderKeys ==
    { <<"H","o","s","t">>, <<"H","O","S","T">>, <<"h","o","s","t">>,
      <<"C","o","n","t","e","n","t","-","L","e","n","g","t","h">>,
      <<"T","R","A","N","S","F","E","R","-","e","n","c","o","d","i","n","g">>,
      <<"H","o","s","t","s">>, <<"X","-","H","o","s","t">>,
      <<"A","u","t","h","o","r","i","z","a","t","i","o","n">>,
      <<"X","-","A","P","I","-","K","e","y">> }

HeaderInputs ==
    {Null} \cup {Some(ks) : ks \in {k \in SUBSET HeaderKeys : Cardinality(k) <= MaxHeaders}}

CtorInputs ==
    [endpoint : Endpoints, headers : HeaderInputs, batchSize : {1}, maxRetries : {1}]

\* The other specifications start from a transport already constructed.
CtorDone ==
    /\ ctorInput = [endpoint |-> [scheme |-> Some(<<"h","t","t","p","s">>), host |-> TRUE],
                    headers |-> Null, batchSize |-> 1, maxRetries |-> 1]
    /\ ctorPc = "constructed"
    /\ ctorError = "none"

\* ... and from a logger whose transports have no dispose.
DisposeDefault ==
    /\ disposeKinds = [i \in 1..Len(transports) |-> "none"]
    /\ DisposeIdle

\* ======================================================================
\* core/logger.ts : extractScope / createLogEntry, formatters/json.ts
\* ======================================================================
\* An object is [present, map]: present is FALSE for undefined, map is the
\* function from its own enumerable keys to their values.
Undefined == "undefined"
NoObject == [present |-> FALSE, map |-> <<>>]
ObjectOf(map) == [present |-> TRUE, map |-> map]

\* The function f without the keys in ks.
Without(f, ks) == [k \in (DOMAIN f) \ ks |-> f[k]]

\* (mutation of HasOtherProperties: an empty rest is returned as an object)
HasOtherProperties_Always(rest) == TRUE

\* extractScope: Object.keys(rest).length > 0
HasOtherProperties(rest) == DOMAIN rest # {}

\* extractScope(object)
ExtractScope(object) ==
    IF ~object.present
    THEN [scope |-> Undefined, cleanObject |-> NoObject]
    ELSE LET scope == IF "scope" \in DOMAIN object.map
                      THEN object.map["scope"] ELSE Undefined
             rest == Without(object.map, {"scope"})
         IN [scope |-> scope,                    \* scope ?? undefined
             cleanObject |-> IF HasOtherProperties(rest)
                             THEN ObjectOf(rest) ELSE NoObject]

\* createLogEntry: the fixed fields, then scope and object from extractScope.
BuildEntry(object) ==
    [level |-> "info", message |-> "msg", timestamp |-> "ts",
     location |-> "loc", requestId |-> "req",
     scope |-> ExtractScope(object).scope,
     object |-> ExtractScope(object).cleanObject]

DANGEROUS_KEYS == {"__proto__", "constructor", "prototype"}

FixedKeys == {"level", "message", "timestamp", "location", "requestId"}

\* if (scope): undefined and the empty string are falsy
Truthy(value) == value # Undefined /\ value # ""

\* buildJsonOutput: value !== undefined && !DANGEROUS_KEYS.has(key)
KeptKey(key, value) == value # Undefined /\ key \notin DANGEROUS_KEYS

\* buildJsonOutput(entry): the fixed fields, scope when truthy, then every
\* kept payload key assigned at the top level (a later assignment to the
\* same key replaces the earlier value).
BuildJsonOutput(e) ==
    LET kept == IF e.object.present
                THEN {k \in DOMAIN e.object.map : KeptKey(k, e.object.map[k])}
                ELSE {}
        withScope == IF Truthy(e.scope) THEN {"scope"} ELSE {}
    IN [k \in FixedKeys \cup withScope \cup kept |->
           IF k \in kept THEN e.object.map[k]
           ELSE IF k = "scope" THEN e.scope
           ELSE e[k]]

\* JSON.stringify(output, null, indent): throws a TypeError when a value is
\* a circular structure or a BigInt, leaves out the properties whose value
\* is undefined, a function or a symbol, and serialises the others. The
\* result is given by the top-level members of the text.
JsonStringify(output, indent) ==
    IF \E k \in DOMAIN output : output[k] \in {"circular", "bigint"}
    THEN [threw |-> TRUE, indent |-> indent, top |-> <<>>]
    ELSE [threw |-> FALSE, indent |-> indent,
          top |-> [k \in {x \in DOMAIN output : output[x] \notin {Undefined, "function", "symbol"}}
                     |-> output[k]]]

\* formatAsJson(entry) / formatAsJsonPretty(entry)
FormatAsJson(e) == JsonStringify(BuildJsonOutput(e), 0)
FormatAsJsonPretty(e) == JsonStringify(BuildJsonOutput(e), 2)

\* JSON.stringify throws on a nested object when one of its members is a
\* circular structure or a BigInt.
NestedThrows(object) ==
    \E k \in DOMAIN object.map : object.map[k] \in {"circular", "bigint"}

\* The members JSON.stringify writes for an object nested in the serialised
\* value: those that are not undefined, a function or a symbol.
NestedJson(object) ==
    [k \in {x \in DOMAIN object.map :
                object.map[x] \notin {Undefined, "function", "symbol"}}
        |-> object.map[k]]

\* formatForProduction(entry): the fixed fields, scope and object when
\* truthy, serialised by JSON.stringify(productionEntry) with the object
\* nested under the key "object".
FormatForProduction(e) ==
    LET withScope == IF Truthy(e.scope) THEN {"scope"} ELSE {}
        withObject == IF e.object.present THEN {"object"} ELSE {}
    IN IF e.object.present /\ NestedThrows(e.object)
       THEN [threw |-> TRUE, indent |-> 0, top |-> <<>>]
       ELSE [threw |-> FALSE, indent |-> 0,
             top |-> [k \in FixedKeys \cup withScope \cup withObject |->
                         IF k = "object" THEN NestedJson(e.object) ELSE e[k]]]

\* logger.info(message, object): createLogEntry
BuildStep ==
    /\ buildPc = "input"
    /\ builtEntry' = BuildEntry(payload)
    /\ buildPc' = "built"
    /\ UNCHANGED <<payload, jsonOut, productionOut, ctorVars, disposeVars, coreVars,
                   dispatchVars, httpVars, laterVars>>

\* The entry is formatted by one of the two JSON formatters.
FormatStep ==
    /\ buildPc = "built"
    /\ \E pretty \in BOOLEAN :
          jsonOut' = IF pretty THEN FormatAsJsonPretty(builtEntry)
                     ELSE FormatAsJson(builtEntry)
    /\ buildPc' = "formatted"
    /\ UNCHANGED <<payload, builtEntry, productionOut, ctorVars, disposeVars, coreVars,
                   dispatchVars, httpVars, laterVars>>

\* The entry is formatted by formatForProduction (formatLogEntry in the
\* production environment).
FormatProductionStep ==
    /\ buildPc = "built"
    /\ productionOut' = FormatForProduction(builtEntry)
    /\ buildPc' = "production"
    /\ UNCHANGED <<payload, builtEntry, jsonOut, ctorVars, disposeVars, coreVars,
                   dispatchVars, httpVars, laterVars>>

\* Sample payload keys and values. scope is a string when given (LogObject);
\* the other values are JSON data ("v"), undefined, and values JSON.stringify
\* treats specially.
PayloadKeys == {"scope", "status", "level", "__proto__", "constructor", "prototype"}
ScopeValues == {Undefined, "", "Auth"}
OtherValues == {Undefined, "v", "function", "symbol", "circular", "bigint"}

PayloadMaps ==
    UNION {{f \in [ks -> ScopeValues \cup OtherValues] :
               \A k \in ks : f[k] \in (IF k = "scope" THEN ScopeValues ELSE OtherValues)} :
           ks \in {x \in SUBSET PayloadKeys : Cardinality(x) <= MaxPayloadKeys}}

Payloads == {NoObject} \cup {ObjectOf(f) : f \in PayloadMaps}

\* No log call being built.
BuildIdle ==
    /\ payload = NoObject
    /\ builtEntry = BuildEntry(NoObject)
    /\ jsonOut = FormatAsJson(BuildEntry(NoObject))
    /\ productionOut = FormatForProduction(BuildEntry(NoObject))
    /\ buildPc = "formatted"

\* ======================================================================
\* formatters/console-node.ts : getScopeColor
\* ======================================================================
\* A scope string is a sequence: <<>> is the empty string, <<n>> the n-th
\* distinct non-empty scope.
EmptyScope == <<>>
NamedScope(n) == <<n>>

MAX_SCOPE_CACHE_SIZE == 100

SCOPE_COLORS == <<"green", "magenta", "cyan", "yellow", "blue">>

\* scopeColorMap.get(scope) found an entry (every stored colour is truthy).
CacheHas(map, scope) == \E i \in 1..Len(map) : map[i].scope = scope

\* const firstKey = scopeColorMap.keys().next().value;
\* if (firstKey) scopeColorMap.delete(firstKey): the empty string is falsy.
EvictFirst(map) ==
    IF Len(map) > 0 /\ map[1].scope # EmptyScope THEN Tail(map) ELSE map

\* if (scopeColorMap.size >= MAX_SCOPE_CACHE_SIZE) evict
AfterEviction(map) ==
    IF Len(map) >= MAX_SCOPE_CACHE_SIZE THEN EvictFirst(map) ELSE map

\* The cache after getScopeColor(scope).
CacheAfter(map, index, scope) ==
    IF CacheHas(map, scope) THEN map
    ELSE Append(AfterEviction(map),
                [scope |-> scope,
                 color |-> SCOPE_COLORS[(index % Len(SCOPE_COLORS)) + 1]])

\* getScopeColor(scope)
GetScopeColor(scope) ==
    /\ scopeColorMap' = CacheAfter(scopeColorMap, scopeColorIndex, scope)
    /\ scopeColorIndex' = IF CacheHas(scopeColorMap, scope) THEN scopeColorIndex
                          ELSE (scopeColorIndex + 1) % Len(SCOPE_COLORS)
    /\ scopeSeq' = IF scope = NamedScope(scopeSeq + 1) THEN scopeSeq + 1 ELSE scopeSeq
    /\ UNCHANGED <<coreVars, dispatchVars, httpVars, ctorVars, disposeVars, buildVars,
                   locationVars, stringifyVars, retryVars, flushTimerVars, sendVars,
                   fileVars>>

\* The scopes a call may pass: the empty string, one already used (1 stands
\* for all of them when evicted, the latest for a cached one) or the next
\* unused one.
ScopeArguments ==
    {EmptyScope}
      \cup {NamedScope(n) : n \in {1, scopeSeq} \ {0}}
      \cup {NamedScope(scopeSeq + 1) : x \in {y \in {1} : scopeSeq < MaxScopes}}

\* __testing__.getScopeColor(scope)
GetScopeColorCall == \E scope \in ScopeArguments : GetScopeColor(scope)

\* formatForNode(entry): if (scope) ... getScopeColor(scope)
FormatForNode ==
    \E scope \in ScopeArguments : scope # EmptyScope /\ GetScopeColor(scope)

\* __testing__.resetScopeCache()
ResetScopeCache ==
    /\ scopeColorMap' = <<>>
    /\ scopeColorIndex' = 0
    /\ scopeSeq' = 0
    /\ UNCHANGED <<coreVars, dispatchVars, httpVars, ctorVars, disposeVars, buildVars,
                   locationVars, stringifyVars, retryVars, flushTimerVars, sendVars,
                   fileVars>>

\* The module as loaded: empty cache.
CacheEmpty ==
    /\ scopeColorMap = <<>>
    /\ scopeColorIndex = 0
    /\ scopeSeq = 0

\* ======================================================================
\* utils/location.ts and location.ts : parseLocation
\* ======================================================================
\* A string is the sequence of its characters.
\* line.includes('at ')
AT_MARKER ==
    <<"a", "t", " ">>

\* line.includes('node_modules')
NODE_MODULES ==
    <<"n", "o", "d", "e", "_", "m", "o", "d", "u", "l", "e", "s">>

\* functionName.includes('<anonymous>')
ANONYMOUS_MARKER ==
    <<"<", "a", "n", "o", "n", "y", "m", "o", "u", "s", ">">>

ANONYMOUS ==
    <<"a", "n", "o", "n", "y", "m", "o", "u", "s">>

UNKNOWN ==
    <<"u", "n", "k", "n", "o", "w", "n">>

LOGGER_TS ==
    <<"l", "o", "g", "g", "e", "r", ".", "t", "s">>

LOCATION_TS ==
    <<"l", "o", "c", "a", "t", "i", "o", "n", ".", "t", "s">>

CONSOLE_NODE_TS ==
    <<"c", "o", "n", "s", "o", "l", "e", "-", "n", "o", "d", "e", ".", "t", "s">>

CONSOLE_BROWSER_TS ==
    <<"c", "o", "n", "s", "o", "l", "e", "-", "b", "r", "o", "w", "s", "e", "r", ".",
      "t", "s">>

CONSOLE_TS ==
    <<"c", "o", "n", "s", "o", "l", "e", ".", "t", "s">>

TEST_UTILS_TS ==
    <<"t", "e", "s", "t", "-", "u", "t", "i", "l", "s", ".", "t", "s">>

FORMATTERS_TS ==
    <<"f", "o", "r", "m", "a", "t", "t", "e", "r", "s", ".", "t", "s">>


\* The two copies of the resolver: utils/location.ts and location.ts.
LocationCopies == {"utils", "root"}

\* INTERNAL_FILES
INTERNAL_FILES(copy) ==
    IF copy = "utils"
    THEN {LOGGER_TS, LOCATION_TS, CONSOLE_NODE_TS, CONSOLE_BROWSER_TS, CONSOLE_TS,
          TEST_UTILS_TS}
    ELSE {LOGGER_TS, LOCATION_TS, FORMATTERS_TS}

MAX_STACK_LINE_LENGTH == 500

\* String.prototype.includes
Includes(s, t) ==
    \E i \in 0..(Len(s) - Len(t)) : \A k \in 1..Len(t) : s[i + k] = t[k]

\* String.prototype.lastIndexOf for one character, 1-based; 0 when absent
LastIndexOf(s, c) ==
    IF \E i \in 1..Len(s) : s[i] = c
    THEN CHOOSE i \in 1..Len(s) : s[i] = c /\ \A j \in (i + 1)..Len(s) : s[j] # c
    ELSE 0

\* \s, \d and the character classes of the patterns
IsSpace(c) == c \in {" ", "\t"}
IsDigit(c) == c \in {"0", "1", "2", "3", "4", "5", "6", "7", "8", "9"}
IsNameChar(c) == ~IsSpace(c) /\ c # "("
IsNonSpace(c) == ~IsSpace(c)

\* F applied to the value of v: v is evaluated once, whatever F does with it.
ApplyTo(v, F(_)) == CHOOSE r \in {F(x) : x \in {v}} : TRUE

\* The last index of the longest run of characters of class C that starts
\* at p (p - 1 when s[p] is not in the class).
RunEnd(s, p, C(_)) ==
    IF p > Len(s) THEN p - 1
    ELSE CHOOSE e \in (p - 1)..Len(s) :
             /\ e = Len(s) \/ ~C(s[e + 1])
             /\ \A k \in p..e : C(s[k])

\* The first index of the longest run of class C that ends at e.
RunStart(s, e, C(_)) ==
    IF e < 1 THEN e + 1
    ELSE CHOOSE b \in 1..(e + 1) :
             /\ b = 1 \/ ~C(s[b - 1])
             /\ \A k \in b..e : C(s[k])

\* String.prototype.trim
Trim(s) ==
    IF \A i \in 1..Len(s) : IsSpace(s[i]) THEN <<>>
    ELSE SubSeq(s, CHOOSE b \in 1..Len(s) : ~IsSpace(s[b]) /\ \A k \in 1..(b - 1) : IsSpace(s[k]),
                   CHOOSE e \in 1..Len(s) : ~IsSpace(s[e]) /\ \A k \in (e + 1)..Len(s) : IsSpace(s[k]))

DIGITS == <<"0", "1", "2", "3", "4", "5", "6", "7", "8", "9">>

DigitValue(c) == (CHOOSE i \in 1..Len(DIGITS) : DIGITS[i] = c) - 1

\* Number(digits): the digits weighted by their powers of ten
RECURSIVE PowerOfTen(_)
PowerOfTen(n) == IF n = 0 THEN 1 ELSE 10 * PowerOfTen(n - 1)

RECURSIVE SumUpTo(_, _)
SumUpTo(ds, n) ==
    IF n = 0 THEN 0
    ELSE SumUpTo(ds, n - 1) + DigitValue(ds[n]) * PowerOfTen(Len(ds) - n)

ToNumber(ds) == SumUpTo(ds, Len(ds))

\* The smallest element of a non-empty set of positions: a pattern matches
\* at the leftmost position where it can.
Leftmost(S) == CHOOSE i \in S : \A j \in S : i <= j

\* Where "at" followed by whitespace starts (at\s+ opens four function
\* patterns and one file pattern).
AtStarts(s) ==
    {i \in 1..(Len(s) - 2) : s[i] = "a" /\ s[i + 1] = "t" /\ IsSpace(s[i + 2])}

\* \s+\( matches at p
BlanksThenParen(s, p) ==
    ApplyTo(RunEnd(s, p, IsSpace), LAMBDA e : e >= p /\ e < Len(s) /\ s[e + 1] = "(")

\* /at\s+([^(\s]+)\s+\(/ tried at i: the captured name, or Null
FunctionPattern1At(s, i) ==
    ApplyTo(RunEnd(s, i + 2, IsSpace), LAMBDA e1 :
    ApplyTo(RunEnd(s, e1 + 1, IsNameChar), LAMBDA e2 :
        IF e2 > e1 /\ BlanksThenParen(s, e2 + 1)
        THEN Some(SubSeq(s, e1 + 1, e2)) ELSE Null))

\* /at\s+(.+?)\s+\(/ tried at i: \s+ takes as many blanks as it can (up to
\* a), the lazy group as few characters as it can (up to e).
FunctionPattern2At(s, i) ==
    ApplyTo(RunEnd(s, i + 2, IsSpace), LAMBDA e1 :
    ApplyTo({p \in ((i + 2)..e1) \X (1..Len(s)) :
                p[2] > p[1] /\ BlanksThenParen(s, p[2] + 1)}, LAMBDA P :
        IF P = {} THEN Null
        ELSE ApplyTo(CHOOSE p \in P : \A q \in P :
                         q[1] < p[1] \/ (q[1] = p[1] /\ q[2] >= p[2]), LAMBDA p :
                 Some(SubSeq(s, p[1] + 1, p[2])))))

\* /at\s+([^(\s]+)$/ tried at i
FunctionPattern3At(s, i) ==
    ApplyTo(RunEnd(s, i + 2, IsSpace), LAMBDA e1 :
    ApplyTo(RunEnd(s, e1 + 1, IsNameChar), LAMBDA e2 :
        IF e2 > e1 /\ e2 = Len(s) THEN Some(SubSeq(s, e1 + 1, e2)) ELSE Null))

\* /at\s+(.+)$/ tried at i: when the blanks run to the end of the string
\* \s+ gives the last one back to the group.
FunctionPattern4At(s, i) ==
    ApplyTo(RunEnd(s, i + 2, IsSpace), LAMBDA e1 :
        IF e1 < Len(s) THEN Some(SubSeq(s, e1 + 1, Len(s)))
        ELSE IF e1 > i + 2 THEN Some(SubSeq(s, e1, e1))
        ELSE Null)

FunctionPatternAt(n, s, i) ==
    CASE n = 1 -> FunctionPattern1At(s, i)
      [] n = 2 -> FunctionPattern2At(s, i)
      [] n = 3 -> FunctionPattern3At(s, i)
      [] n = 4 -> FunctionPattern4At(s, i)

\* STACK_TRACE_PATTERNS.function[n].exec(s): capture group 1, or Null
FunctionPatternExec(n, s) ==
    ApplyTo({i \in AtStarts(s) : FunctionPatternAt(n, s, i) # Null}, LAMBDA S :
        IF S = {} THEN Null
        ELSE ApplyTo(Leftmost(S), LAMBDA i : FunctionPatternAt(n, s, i)))

\* The tail :(\d+):\d+$ of the second and third file patterns: the index of
\* its first colon and the digits of the line number, or Null.
LineColumnTail(s) ==
    ApplyTo(RunStart(s, Len(s), IsDigit), LAMBDA b2 :
    ApplyTo(RunStart(s, b2 - 2, IsDigit), LAMBDA b1 :
        IF /\ b2 <= Len(s) /\ b2 >= 3 /\ s[b2 - 1] = ":"
           /\ b1 <= b2 - 2 /\ b1 >= 2 /\ s[b1 - 1] = ":"
        THEN Some([colon |-> b1 - 1, digits |-> SubSeq(s, b1, b2 - 2)])
        ELSE Null))

\* [^:\s]+(?:[:\\\\][^:\s]+)* matches all of s[j..e]
IsPathText(s, j, e) ==
    /\ j <= e
    /\ \A k \in j..e : ~IsSpace(s[k])
    /\ s[j] # ":" /\ s[e] # ":"
    /\ \A k \in j..(e - 1) : ~(s[k] = ":" /\ s[k + 1] = ":")

\* :(\d+):\d+\) matches at the colon at p: the digits of the group, or Null
LineColumnParen(s, p) ==
    ApplyTo(RunEnd(s, p + 1, IsDigit), LAMBDA d1 :
    ApplyTo(RunEnd(s, d1 + 2, IsDigit), LAMBDA d2 :
        IF /\ p <= Len(s) /\ s[p] = ":"
           /\ d1 >= p + 1 /\ d1 + 2 <= Len(s) /\ s[d1 + 1] = ":"
           /\ d2 >= d1 + 2 /\ d2 < Len(s) /\ s[d2 + 1] = ")"
        THEN Some(SubSeq(s, p + 1, d1)) ELSE Null))

\* /\(([^)]+):(\d+):\d+\)/ tried at i: the greedy group ends as late as a
\* colon followed by digits, a colon, digits and ")" allows.
FilePattern1At(s, i) ==
    IF s[i] # "(" THEN Null
    ELSE ApplyTo(RunEnd(s, i + 1, LAMBDA c : c # ")"), LAMBDA last :
         ApplyTo({e \in (i + 1)..last : LineColumnParen(s, e + 1) # Null}, LAMBDA Ends :
             IF Ends = {} THEN Null
             ELSE ApplyTo(CHOOSE x \in Ends : \A y \in Ends : y <= x, LAMBDA e :
                      Some([path |-> SubSeq(s, i + 1, e),
                            digits |-> LineColumnParen(s, e + 1)[1]]))))

\* /at\s+[^(]*\s+([^:\s]+(?:[:\\\\][^:\s]+)*):(\d+):\d+$/ tried at i: the
\* group has no blank and follows one, so it starts after the last blank
\* before the tail; at least two blanks and no "(" lie between.
FilePattern2At(s, i) ==
    ApplyTo(LineColumnTail(s), LAMBDA tail :
        IF tail = Null \/ i \notin AtStarts(s) THEN Null
        ELSE ApplyTo(RunStart(s, tail[1].colon - 1, IsNonSpace), LAMBDA j :
                 IF /\ j >= i + 4
                    /\ IsPathText(s, j, tail[1].colon - 1)
                    /\ \A k \in (i + 2)..(j - 1) : s[k] # "("
                 THEN Some([path |-> SubSeq(s, j, tail[1].colon - 1),
                            digits |-> tail[1].digits])
                 ELSE Null))

\* /([^:\s]+(?:[:\\\\][^:\s]+)*):(\d+):\d+$/ tried at j
FilePattern3At(s, j) ==
    ApplyTo(LineColumnTail(s), LAMBDA tail :
        IF tail # Null /\ IsPathText(s, j, tail[1].colon - 1)
        THEN Some([path |-> SubSeq(s, j, tail[1].colon - 1), digits |-> tail[1].digits])
        ELSE Null)

FilePatternAt(n, s, i) ==
    CASE n = 1 -> FilePattern1At(s, i)
      [] n = 2 -> FilePattern2At(s, i)
      [] n = 3 -> FilePattern3At(s, i)

\* STACK_TRACE_PATTERNS.file[n].exec(s): capture groups 1 and 2, or Null
FilePatternExec(n, s) ==
    ApplyTo({i \in 1..Len(s) : FilePatternAt(n, s, i) # Null}, LAMBDA S :
        IF S = {} THEN Null
        ELSE ApplyTo(Leftmost(S), LAMBDA i : FilePatternAt(n, s, i)))

\* truncateStackLine
TruncateStackLine(line) ==
    IF Len(line) > MAX_STACK_LINE_LENGTH
    THEN SubSeq(line, 1, MAX_STACK_LINE_LENGTH) ELSE line

\* The string the patterns of a copy are run against: utils/location.ts
\* truncates the line, location.ts passes it as it is.
SafeLine(copy, stackLine) ==
    IF copy = "utils" THEN TruncateStackLine(stackLine) ELSE stackLine

\* for (const pattern of patterns): the first match whose groups are
\* truthy, or Null. matches[n] is what the n-th pattern gives.
FirstMatch(matches, IsTruthy(_)) ==
    IF \E n \in 1..Len(matches) : matches[n] # Null /\ IsTruthy(matches[n][1])
    THEN matches[Leftmost({n \in 1..Len(matches) :
                              matches[n] # Null /\ IsTruthy(matches[n][1])})]
    ELSE Null

\* The name extractFunctionName makes of capture group 1.
CleanFunctionName(functionName) ==
    ApplyTo(LastIndexOf(functionName, "."), LAMBDA lastDotIndex :
        IF Includes(functionName, ANONYMOUS_MARKER) THEN ANONYMOUS
        ELSE IF /\ lastDotIndex # 0
                /\ lastDotIndex < Len(functionName)
             THEN SubSeq(functionName, lastDotIndex + 1, Len(functionName))
             ELSE functionName)

\* extractFunctionName, from the string the patterns are run against
FunctionNameOf(safeLine) ==
    ApplyTo(FirstMatch([n \in 1..4 |-> FunctionPatternExec(n, safeLine)],
                       LAMBDA group : group # <<>>), LAMBDA match :
        IF match = Null THEN UNKNOWN
        ELSE ApplyTo(Trim(match[1]), LAMBDA name : CleanFunctionName(name)))

\* The file name extractFileInfo makes of capture group 1.
FileNameOf(fullPath) ==
    ApplyTo(LastIndexOf(fullPath, "/"), LAMBDA a :
    ApplyTo(LastIndexOf(fullPath, "\\"), LAMBDA b :
        SubSeq(fullPath, (IF a > b THEN a ELSE b) + 1, Len(fullPath))))

\* extractFileInfo, from the string the patterns are run against
FileInfoOf(safeLine) ==
    ApplyTo(FirstMatch([n \in 1..3 |-> FilePatternExec(n, safeLine)],
                       LAMBDA m : m.path # <<>> /\ m.digits # <<>>), LAMBDA match :
        IF match = Null THEN [file |-> UNKNOWN, line |-> 0]
        ELSE [file |-> FileNameOf(match[1].path), line |-> ToNumber(match[1].digits)])

\* extractFunctionName
ExtractFunctionName(copy, stackLine) ==
    ApplyTo(SafeLine(copy, stackLine), LAMBDA safeLine : FunctionNameOf(safeLine))

\* extractFileInfo
ExtractFileInfo(copy, stackLine) ==
    ApplyTo(SafeLine(copy, stackLine), LAMBDA safeLine : FileInfoOf(safeLine))

\* stack.split('\n'): the text between the k-th and the next line break
Split(s) ==
    ApplyTo({0, Len(s) + 1} \cup {i \in 1..Len(s) : s[i] = "\n"}, LAMBDA breaks :
        [k \in 1..(Cardinality(breaks) - 1) |->
            ApplyTo(CHOOSE i \in breaks : Cardinality({j \in breaks : j < i}) = k - 1,
                    LAMBDA from :
                SubSeq(s, from + 1,
                       Leftmost({j \in breaks : j > from}) - 1))])

\* isValidStackLine
IsValidStackLine_MarkerOnly(line) == Includes(line, AT_MARKER)
IsValidStackLine(line) == Includes(line, AT_MARKER) /\ ~Includes(line, NODE_MODULES)

\* isInternalFile
IsInternalFile(copy, line) == \E file \in INTERNAL_FILES(copy) : Includes(line, file)

\* getCallerStackLine: the loop from lines[i] on, then the fallback
\* lines[1] ?? '' (lines[1] of the source, the second line, is lines[2] here).
RECURSIVE ScanLines(_, _, _)
ScanLines(copy, lines, i) ==
    IF i > Len(lines) THEN IF Len(lines) >= 2 THEN lines[2] ELSE <<>>
    ELSE IF /\ lines[i] # <<>>
            /\ IsValidStackLine(lines[i])
            /\ ~IsInternalFile(copy, lines[i])
         THEN lines[i]
         ELSE ScanLines(copy, lines, i + 1)

GetCallerStackLine(copy, stack) ==
    ApplyTo(Split(stack), LAMBDA lines : ScanLines(copy, lines, 2))

\* What new Error().stack gives: a text, undefined, or the constructor throws.
StackText(text) == [kind |-> "text", text |-> text]
StackUndefined == [kind |-> "undefined", text |-> <<>>]
ErrorThrows == [kind |-> "throws", text |-> <<>>]

\* The value returned by the catch block.
UnknownLocation_Development(prod) == [function |-> UNKNOWN, file |-> UNKNOWN, line |-> 0]
UnknownLocation(prod) ==
    IF prod THEN [function |-> UNKNOWN]
    ELSE [function |-> UNKNOWN, file |-> UNKNOWN, line |-> 0]

\* The try block of parseLocation on a stack text: what it returns, the line
\* it chose and the lengths of the strings its patterns ran on.
TryParseLocation(copy, stack, prod) ==
    ApplyTo(GetCallerStackLine(copy, stack), LAMBDA stackLine :
    ApplyTo(ExtractFunctionName(copy, stackLine), LAMBDA functionName :
        [callerLine |-> Some(stackLine),
         patternInputs |-> {Len(SafeLine(copy, stackLine))},
         location |->
             IF prod THEN [function |-> functionName]
             ELSE ApplyTo(ExtractFileInfo(copy, stackLine), LAMBDA info :
                      [function |-> functionName, file |-> info.file,
                       line |-> info.line])]))

\* parseLocation(isProduction) of one copy, its catch block included
ParseLocation(copy) ==
    /\ locPc = "input"
    /\ locPc' = "returned"
    /\ locCopy' = copy
    /\ \E r \in {IF stackInput.kind = "throws"
                 THEN [callerLine |-> Null, patternInputs |-> {},
                       location |-> UnknownLocation(isProduction)]
                 ELSE TryParseLocation(copy, stackInput.text, isProduction)} :
           /\ locResult' = Some(r.location)
           /\ callerLine' = r.callerLine
           /\ patternInputs' = r.patternInputs
    /\ UNCHANGED <<stackInput, isProduction>>
    /\ UNCHANGED <<coreVars, dispatchVars, httpVars, ctorVars, disposeVars, buildVars,
                   cacheVars, stringifyVars, retryVars, flushTimerVars, sendVars,
                   fileVars>>

\* utils/location.ts
UtilsParseLocation == ParseLocation("utils")

\* location.ts
RootParseLocation == ParseLocation("root")

\* The first line of a stack: the error itself.
HEADER_LINE ==
    <<"E", "r", "r", "o", "r">>

INVALID_STACK ==
    <<"I", "n", "v", "a", "l", "i", "d", " ", "s", "t", "a", "c", "k", " ", "t", "r",
      "a", "c", "e", " ", "f", "o", "r", "m", "a", "t">>

\* Sample lines of a stack.
InternalFrame ==
    <<" ", " ", " ", " ", "a", "t", " ", "p", "a", "r", "s", "e", "L", "o", "c", "a",
      "t", "i", "o", "n", " ", "(", "/", "p", "a", "t", "h", "/", "t", "o", "/", "l",
      "o", "c", "a", "t", "i", "o", "n", ".", "t", "s", ":", "4", "5", ":", "1", "2",
      ")">>

FormatterFrame ==
    <<" ", " ", " ", " ", "a", "t", " ", "f", "o", "r", "m", "a", "t", " ", "(", "/",
      "p", "a", "t", "h", "/", "t", "o", "/", "c", "o", "n", "s", "o", "l", "e", ".",
      "t", "s", ":", "1", "2", ":", "3", ")">>

UserFrame ==
    <<" ", " ", " ", " ", "a", "t", " ", "u", "s", "e", "r", "F", "u", "n", "c", "t",
      "i", "o", "n", " ", "(", "/", "p", "a", "t", "h", "/", "t", "o", "/", "a", "p",
      "p", ".", "t", "s", ":", "3", "0", ":", "2", ")">>

VendorFrame ==
    <<" ", " ", " ", " ", "a", "t", " ", "s", "o", "m", "e", "L", "i", "b", "F", "u",
      "n", "c", "t", "i", "o", "n", " ", "(", "/", "p", "a", "t", "h", "/", "t", "o",
      "/", "n", "o", "d", "e", "_", "m", "o", "d", "u", "l", "e", "s", "/", "l", "i",
      "b", "/", "i", "n", "d", "e", "x", ".", "j", "s", ":", "1", "0", "0", ":", "5",
      ")">>

AnonymousFrame ==
    <<" ", " ", " ", " ", "a", "t", " ", "O", "b", "j", "e", "c", "t", ".", "<", "a",
      "n", "o", "n", "y", "m", "o", "u", "s", ">", " ", "(", "/", "p", "a", "t", "h",
      "/", "t", "o", "/", "m", "a", "i", "n", ".", "t", "s", ":", "2", "5", ":", "8",
      ")">>

MethodFrame ==
    <<" ", " ", " ", " ", "a", "t", " ", "O", "b", "j", "e", "c", "t", ".", "m", "e",
      "t", "h", "o", "d", "N", "a", "m", "e", " ", "(", "C", ":", "\\", "p", "a", "t",
      "h", "\\", "t", "o", "\\", "t", "e", "s", "t", ".", "t", "s", ":", "1", "5", ":",
      "3", ")">>

BareFrame ==
    <<" ", " ", " ", " ", "a", "t", " ", "/", "p", "a", "t", "h", "/", "t", "o", "/",
      "b", "a", "r", "e", ".", "t", "s", ":", "7", ":", "1">>

SpacedFrame ==
    <<" ", " ", " ", " ", "a", "t", " ", "r", "u", "n", " ", "/", "p", "a", "t", "h",
      "/", "t", "o", "/", "j", "o", "b", ".", "t", "s", ":", "9", ":", "4">>

GarbageLine ==
    <<"g", "a", "r", "b", "a", "g", "e">>

GarbageAtLine ==
    <<"w", "h", "a", "t", " ", "i", "s", " ", "t", "h", "i", "s">>

GarbageTailLine ==
    <<"o", "o", "p", "s", ":", "1", "2", ":", "3">>

FRAME_INDENT ==
    <<" ", " ", " ", " ", "a", "t", " ">>

LONG_FRAME_TAIL ==
    <<" ", "(", "/", "s", "o", "m", "e", "/", "p", "a", "t", "h", ":", "1", ":", "1",
      ")">>

\* A frame whose function name alone is longer than MAX_STACK_LINE_LENGTH.
LongFrame == FRAME_INDENT \o [i \in 1..MaxNameLength |-> "x"] \o LONG_FRAME_TAIL

\* The lines the stack texts are built from.
SampleLines ==
    {<<>>, InternalFrame, FormatterFrame, UserFrame, VendorFrame, AnonymousFrame,
     MethodFrame, BareFrame, SpacedFrame, GarbageLine, GarbageAtLine, GarbageTailLine}

\* lines.join('\n')
RECURSIVE JoinLines(_)
JoinLines(lines) ==
    IF Len(lines) = 1 THEN lines[1]
    ELSE lines[1] \o <<"\n">> \o JoinLines(Tail(lines))

\* The stack texts: nothing, one line, a header followed by sample lines,
\* and the long frame first, ahead of a user frame or behind an internal one.
StackTexts ==
    {<<>>, HEADER_LINE, INVALID_STACK}
      \cup UNION {{JoinLines(<<HEADER_LINE>> \o ls) : ls \in [1..n -> SampleLines]} :
                  n \in 1..MaxStackLines}
      \cup {JoinLines(<<HEADER_LINE, LongFrame>>),
            JoinLines(<<HEADER_LINE, LongFrame, UserFrame>>),
            JoinLines(<<HEADER_LINE, InternalFrame, LongFrame>>)}

StackInputs == {StackUndefined, ErrorThrows} \cup {StackText(t) : t \in StackTexts}

\* No parseLocation call in progress: the last one saw an empty stack.
LocationIdle ==
    /\ stackInput = StackText(<<>>)
    /\ isProduction = FALSE
    /\ locCopy = "utils"
    /\ callerLine = Some(<<>>)
    /\ patternInputs = {0}
    /\ locResult = Some(UnknownLocation(FALSE))
    /\ locPc = "returned"

\* ======================================================================
\* unnamed/part_008, unnamed/part_014 : safeStringify
\* ======================================================================
\* The argument is object 1 of a graph. Every object has the keys of
\* FIELD_KEYS, in this insertion order, each absent, holding a primitive or
\* referring to an object of the graph.
FIELD_KEYS == <<"name", "ref", "self">>

Absent == [kind |-> "absent"]
Primitive(type) == [kind |-> "primitive", type |-> type]
Reference(object) == [kind |-> "reference", object |-> object]

PrimitiveTypes == {"string", "bigint"}

CIRCULAR_REFERENCE == "[Circular Reference]"

\* A leaf and an object of the JSON tree that the returned string denotes.
JsonLeaf(text) == [leaf |-> text]
JsonObject(fields) == [fields |-> fields]

\* typeToString, and the values the replacer returns unchanged
TypeToString(type) == IF type = "bigint" THEN "bigint.toString()" ELSE type

\* JSON.stringify(value, replacer, 2) from the object `object` on, `seen`
\* being the WeakSet: the fields from the i-th key on are added to `fields`.
\* The replacer answers '[Circular Reference]' for an object already in
\* seen and adds every other object to it before its keys are visited.
RECURSIVE StringifyFields(_, _, _, _, _)
StringifyFields(graph, object, i, seen, fields) ==
    IF i > Len(FIELD_KEYS) THEN [out |-> JsonObject(fields), seen |-> seen]
    ELSE ApplyTo(graph[object][FIELD_KEYS[i]], LAMBDA val :
         IF val.kind = "absent"
         THEN StringifyFields(graph, object, i + 1, seen, fields)
         ELSE IF val.kind = "primitive"
         THEN StringifyFields(graph, object, i + 1, seen,
                  (FIELD_KEYS[i] :> JsonLeaf(TypeToString(val.type))) @@ fields)
         ELSE IF val.object \in seen
         THEN StringifyFields(graph, object, i + 1, seen,
                  (FIELD_KEYS[i] :> JsonLeaf(CIRCULAR_REFERENCE)) @@ fields)
         ELSE ApplyTo(StringifyFields(graph, val.object, 1, seen \cup {val.object},
                                      <<>>), LAMBDA inner :
                  StringifyFields(graph, object, i + 1, inner.seen,
                      (FIELD_KEYS[i] :> inner.out) @@ fields)))

\* safeStringify(value) for the object 1 of the graph: the replacer sees the
\* argument itself first.
SafeStringifyOf(graph) == StringifyFields(graph, 1, 1, {1}, <<>>).out

\* safeStringify(value)
SafeStringify ==
    /\ stringified = Null
    /\ stringified' = Some(SafeStringifyOf(objectGraph))
    /\ UNCHANGED objectGraph
    /\ UNCHANGED <<coreVars, dispatchVars, httpVars, ctorVars, disposeVars, buildVars,
                   cacheVars, locationVars, retryVars, flushTimerVars, sendVars,
                   fileVars>>

FieldValues ==
    {Absent} \cup {Primitive(t) : t \in PrimitiveTypes}
             \cup {Reference(o) : o \in 1..MaxObjects}

ObjectGraphs == [1..MaxObjects -> [{FIELD_KEYS[i] : i \in 1..Len(FIELD_KEYS)} -> FieldValues]]

\* No safeStringify call in progress: the last one saw an empty object.
StringifyIdle ==
    /\ objectGraph = [o \in 1..MaxObjects |-> [k \in {FIELD_KEYS[i] : i \in 1..Len(FIELD_KEYS)} |-> Absent]]
    /\ stringified = Some(JsonObject(<<>>))

\* ======================================================================
\* transports/http.ts, unnamed/part_002 : sendWithRetry (the backoff waits)
\* ======================================================================
RetryClasses == {"HttpTransport", "HTTPTransport"}

\* Math.min(..., 30000) // Max 30s
MAX_BACKOFF_DELAY == 30000

RECURSIVE PowerOfTwo(_)
PowerOfTwo(n) == IF n = 0 THEN 1 ELSE 2 * PowerOfTwo(n - 1)

Minimum(a, b) == IF a <= b THEN a ELSE b

\* (mutation of BackoffDelay: the base delay is not doubled)
BackoffDelay_Constant(class, attempt) ==
    IF class = "HttpTransport" THEN 100 ELSE Minimum(1000, MAX_BACKOFF_DELAY)

\* The delay slept after the failed attempt `attempt`:
\*   HttpTransport: 100 * 2 ** attempt
\*   HTTPTransport: Math.min(1000 * Math.pow(2, attempt), 30000)
BackoffDelay(class, attempt) ==
    IF class = "HttpTransport"
    THEN 100 * PowerOfTwo(attempt)
    ELSE Minimum(1000 * PowerOfTwo(attempt), MAX_BACKOFF_DELAY)

\* The loop condition:
\*   HttpTransport: attempt < this.config.maxRetries
\*   HTTPTransport: attempt <= this.config.retries
RetryLoopTest(class, limit, attempt) ==
    IF class = "HttpTransport" THEN attempt < limit ELSE attempt <= limit

\* The condition of the sleep in the catch block:
\*   HttpTransport: attempt < this.config.maxRetries - 1
\*   HTTPTransport: attempt < this.config.retries
RetrySleepTest(class, limit, attempt) ==
    IF class = "HttpTransport" THEN attempt < limit - 1 ELSE attempt < limit

\* Where the loop goes once attempt has the value `attempt`: into the body,
\* or past the loop to the final throw.
RetryLoopEntry(attempt) ==
    IF RetryLoopTest(retryClass, retryLimit, attempt) THEN "send" ELSE "threw"

\* sendWithRetry is called: let attempt = 0 and the first loop test.
SendWithRetryStart ==
    /\ retryPc = "idle"
    /\ retryAttempt' = 0
    /\ retryPc' = RetryLoopEntry(0)
    /\ UNCHANGED <<retryClass, retryLimit, retryWaits>>
    /\ UNCHANGED <<coreVars, dispatchVars, httpVars, ctorVars, disposeVars, buildVars,
                   cacheVars, locationVars, stringifyVars, flushTimerVars, sendVars,
                   fileVars>>

\* The attempt succeeds: return.
RetrySendSucceeds ==
    /\ retryPc = "send"
    /\ retryPc' = "returned"
    /\ UNCHANGED <<retryClass, retryLimit, retryAttempt, retryWaits>>
    /\ UNCHANGED <<coreVars, dispatchVars, httpVars, ctorVars, disposeVars, buildVars,
                   cacheVars, locationVars, stringifyVars, flushTimerVars, sendVars,
                   fileVars>>

\* The attempt fails (network error, non-2xx status, timeout): the catch
\* block starts the backoff sleep, or, after the last attempt, the loop
\* ends with attempt++ and the failed loop test.
RetrySendFails ==
    /\ retryPc = "send"
    /\ IF RetrySleepTest(retryClass, retryLimit, retryAttempt)
       THEN /\ retryWaits' = Append(retryWaits, BackoffDelay(retryClass, retryAttempt))
            /\ retryPc' = "sleep"
            /\ UNCHANGED retryAttempt
       ELSE /\ retryAttempt' = retryAttempt + 1
            /\ retryPc' = RetryLoopEntry(retryAttempt + 1)
            /\ UNCHANGED retryWaits
    /\ UNCHANGED <<retryClass, retryLimit>>
    /\ UNCHANGED <<coreVars, dispatchVars, httpVars, ctorVars, disposeVars, buildVars,
                   cacheVars, locationVars, stringifyVars, flushTimerVars, sendVars,
                   fileVars>>

\* The backoff sleep ends: attempt++ and the loop test.
RetrySleepEnds ==
    /\ retryPc = "sleep"
    /\ retryAttempt' = retryAttempt + 1
    /\ retryPc' = RetryLoopEntry(retryAttempt + 1)
    /\ UNCHANGED <<retryClass, retryLimit, retryWaits>>
    /\ UNCHANGED <<coreVars, dispatchVars, httpVars, ctorVars, disposeVars, buildVars,
                   cacheVars, locationVars, stringifyVars, flushTimerVars, sendVars,
                   fileVars>>

\* No sendWithRetry call in progress.
RetryIdle ==
    /\ retryClass = "HttpTransport"
    /\ retryLimit = 0
    /\ retryAttempt = 0
    /\ retryWaits = <<>>
    /\ retryPc = "returned"

\* ======================================================================
\* unnamed/part_002 : HTTPTransport write / flush / close / flushBatch
\* ======================================================================
\* private batchState: BatchState = { entries: [], timer: null }
EmptyBatch == [entries |-> <<>>, timer |-> Null]

\* flush(): if (this.batchState.timer) { clearTimeout(...); this.batchState.timer = null }
ClearTimer(batch, pending) ==
    IF batch.timer # Null
    THEN [batch |-> [batch EXCEPT !.timer = Null], pending |-> pending \ {batch.timer[1]}]
    ELSE [batch |-> batch, pending |-> pending]

\* flushBatch(), up to its await: nothing when the buffer is empty; otherwise
\* the entries are copied, batchState is replaced by { entries: [], timer:
\* null } and the copy is sent. No timeout is cleared here.
FlushBatch(batch, pending, by, log) ==
    IF Len(batch.entries) = 0
    THEN [batch |-> batch, log |-> log]
    ELSE [batch |-> EmptyBatch,
          log |-> Append(log, [by |-> by, entries |-> batch.entries,
                               pendingAfter |-> pending])]

\* write(entry): push, schedule the flush timer when none is recorded, and
\* flush at once when the batch is full.
Write ==
    /\ written < MaxWrites
    /\ written' = written + 1
    /\ LET pushed == [transportBatch EXCEPT !.entries = Append(@, written + 1)]
           schedules == pushed.timer = Null
           scheduled == IF schedules
                        THEN [pushed EXCEPT !.timer = Some(timeoutSeq + 1)]
                        ELSE pushed
           pending == IF schedules
                      THEN pendingTimeouts \cup {timeoutSeq + 1}
                      ELSE pendingTimeouts
       IN /\ timeoutSeq' = IF schedules THEN timeoutSeq + 1 ELSE timeoutSeq
          /\ pendingTimeouts' = pending
          /\ IF Len(scheduled.entries) >= transportConfig.batchSize
             THEN /\ transportBatch' = FlushBatch(scheduled, pending, "size", flushLog).batch
                  /\ flushLog' = FlushBatch(scheduled, pending, "size", flushLog).log
             ELSE /\ transportBatch' = scheduled
                  /\ UNCHANGED flushLog
    /\ UNCHANGED transportConfig
    /\ UNCHANGED <<coreVars, dispatchVars, httpVars, ctorVars, disposeVars, buildVars,
                   cacheVars, locationVars, stringifyVars, retryVars, sendVars,
                   fileVars>>

\* flush(), called directly (by = "flush") or by close() (by = "close"): the
\* recorded timer is cleared, then flushBatch.
FlushBy(by) ==
    /\ LET cleared == ClearTimer(transportBatch, pendingTimeouts)
           flushed == FlushBatch(cleared.batch, cleared.pending, by, flushLog)
       IN /\ pendingTimeouts' = cleared.pending
          /\ transportBatch' = flushed.batch
          /\ flushLog' = flushed.log
    /\ UNCHANGED <<transportConfig, timeoutSeq, written>>
    /\ UNCHANGED <<coreVars, dispatchVars, httpVars, ctorVars, disposeVars, buildVars,
                   cacheVars, locationVars, stringifyVars, retryVars, sendVars,
                   fileVars>>

\* flush()
Flush == FlushBy("flush")

\* close(): await this.flush()
Close == FlushBy("close")

\* A pending timeout fires: its callback runs flushBatch.
TimeoutFires(handle) ==
    /\ handle \in pendingTimeouts
    /\ LET pending == pendingTimeouts \ {handle}
           flushed == FlushBatch(transportBatch, pending, "timer", flushLog)
       IN /\ pendingTimeouts' = pending
          /\ transportBatch' = flushed.batch
          /\ flushLog' = flushed.log
    /\ UNCHANGED <<transportConfig, timeoutSeq, written>>
    /\ UNCHANGED <<coreVars, dispatchVars, httpVars, ctorVars, disposeVars, buildVars,
                   cacheVars, locationVars, stringifyVars, retryVars, sendVars,
                   fileVars>>

\* new HTTPTransport(config)
TransportConstructed ==
    /\ transportBatch = EmptyBatch
    /\ pendingTimeouts = {}
    /\ timeoutSeq = 0
    /\ written = 0
    /\ flushLog = <<>>

\* The HTTPTransport as constructed with batchSize 1, never written to.
FlushTimerIdle ==
    /\ transportConfig = [batchSize |-> 1]
    /\ TransportConstructed

\* ======================================================================
\* transports/http.ts : flush -> sendWithRetry -> send, for one batch
\* ======================================================================
\* const entries = [...this.buffer]: the batch the flush captured.
CapturedBatch == <<1, 2>>

\* How a fetch can be answered when it is not aborted.
Answers == {"ok", "status", "network"}

\* (mutation of FetchSettles: the abort signal is ignored)
FetchSettles_IgnoresAbort(aborted, answer) ==
    IF answer = "ok" \/ aborted THEN "resolved" ELSE "rejected"

\* What send() does once fetch settles: it resolves when the response is ok;
\* it rejects when the signal was aborted (fetch rejects with an AbortError),
\* on a network error, and on a non-2xx status (throw new Error).
FetchSettles(aborted, answer) ==
    IF ~aborted /\ answer = "ok" THEN "resolved" ELSE "rejected"

\* this.config.onSuccess?.(entries.length) inside the try block of flush():
\* when the callback throws, the catch block of flush() calls onError.
CallOnSuccess(log) ==
    LET called == Append(log, [name |-> "onSuccess", count |-> Len(CapturedBatch),
                               entries |-> <<>>])
    IN IF sendConfig.onSuccessThrows
       THEN Append(called, [name |-> "onError", count |-> 0,
                            entries |-> CapturedBatch])
       ELSE called

\* this.config.onError?.(error, entries) in the catch block of flush()
CallOnError(log) ==
    Append(log, [name |-> "onError", count |-> 0, entries |-> CapturedBatch])

\* send(entries) is entered: a new AbortController, setTimeout(abort, timeout)
\* and the fetch of the batch.
StartSend ==
    /\ sendPc' = "fetching"
    /\ signalAborted' = FALSE
    /\ timeoutPending' = TRUE
    /\ sendRequests' = Append(sendRequests, CapturedBatch)

\* The loop test of sendWithRetry with attempt = `attempt`: the next send, or
\* throw lastError, which the catch block of flush() turns into onError; the
\* finally block resets isFlushing.
SendLoopTest(attempt) ==
    /\ sendAttempt' = attempt
    /\ IF RetryLoopTest("HttpTransport", sendConfig.maxRetries, attempt)
       THEN /\ StartSend
            /\ UNCHANGED callbackLog
       ELSE /\ sendPc' = "done"
            /\ callbackLog' = CallOnError(callbackLog)
            /\ timeoutPending' = FALSE
            /\ UNCHANGED <<signalAborted, sendRequests>>

\* send() rejected: the catch block of the retry loop starts the backoff
\* sleep, or the loop goes on to attempt++ and its test.
AttemptFailed(outcome) ==
    IF RetrySleepTest("HttpTransport", sendConfig.maxRetries, sendAttempt)
    THEN /\ attemptLog' = Append(attemptLog,
                [outcome |-> outcome,
                 wait |-> Some(BackoffDelay("HttpTransport", sendAttempt))])
         /\ sendPc' = "sleeping"
         /\ timeoutPending' = FALSE
         /\ UNCHANGED <<sendAttempt, signalAborted, sendRequests, callbackLog>>
    ELSE /\ attemptLog' = Append(attemptLog, [outcome |-> outcome, wait |-> Null])
         /\ SendLoopTest(sendAttempt + 1)

\* flush() passes its guard: isFlushing = true, the capture, and
\* sendWithRetry up to the first fetch.
SendFlushStart ==
    /\ sendPc = "idle"
    /\ SendLoopTest(0)
    /\ UNCHANGED <<sendConfig, attemptLog>>
    /\ UNCHANGED <<coreVars, dispatchVars, httpVars, ctorVars, disposeVars, buildVars,
                   cacheVars, locationVars, stringifyVars, retryVars, flushTimerVars,
                   fileVars>>

\* The fetch is answered before the timeout: the finally block of send()
\* clears the timeout; an ok response makes sendWithRetry return and flush()
\* call onSuccess, anything else is a failed attempt.
FetchAnswered(answer) ==
    /\ sendPc = "fetching"
    /\ ~signalAborted
    /\ IF FetchSettles(signalAborted, answer) = "resolved"
       THEN /\ attemptLog' = Append(attemptLog, [outcome |-> answer, wait |-> Null])
            /\ sendPc' = "done"
            /\ timeoutPending' = FALSE
            /\ callbackLog' = CallOnSuccess(callbackLog)
            /\ UNCHANGED <<sendAttempt, signalAborted, sendRequests>>
       ELSE AttemptFailed(answer)
    /\ UNCHANGED sendConfig
    /\ UNCHANGED <<coreVars, dispatchVars, httpVars, ctorVars, disposeVars, buildVars,
                   cacheVars, locationVars, stringifyVars, retryVars, flushTimerVars,
                   fileVars>>

\* The timeout of send() elapses while the fetch is pending: the callback
\* runs controller.abort().
SendTimeoutElapses ==
    /\ sendPc = "fetching"
    /\ timeoutPending
    /\ timeoutPending' = FALSE
    /\ signalAborted' = TRUE
    /\ UNCHANGED <<sendConfig, sendAttempt, sendPc, sendRequests, attemptLog, callbackLog>>
    /\ UNCHANGED <<coreVars, dispatchVars, httpVars, ctorVars, disposeVars, buildVars,
                   cacheVars, locationVars, stringifyVars, retryVars, flushTimerVars,
                   fileVars>>

\* The aborted fetch settles, whatever the endpoint would have answered.
AbortedFetchSettles ==
    /\ sendPc = "fetching"
    /\ signalAborted
    /\ \E answer \in Answers :
          IF FetchSettles(signalAborted, answer) = "resolved"
          THEN /\ attemptLog' = Append(attemptLog, [outcome |-> "late", wait |-> Null])
               /\ sendPc' = "done"
               /\ callbackLog' = CallOnSuccess(callbackLog)
               /\ UNCHANGED <<sendAttempt, signalAborted, timeoutPending, sendRequests>>
          ELSE AttemptFailed("timeout")
    /\ UNCHANGED sendConfig
    /\ UNCHANGED <<coreVars, dispatchVars, httpVars, ctorVars, disposeVars, buildVars,
                   cacheVars, locationVars, stringifyVars, retryVars, flushTimerVars,
                   fileVars>>

\* The backoff sleep ends: attempt++ and the loop test.
SendSleepEnds ==
    /\ sendPc = "sleeping"
    /\ SendLoopTest(sendAttempt + 1)
    /\ UNCHANGED <<sendConfig, attemptLog>>
    /\ UNCHANGED <<coreVars, dispatchVars, httpVars, ctorVars, disposeVars, buildVars,
                   cacheVars, locationVars, stringifyVars, retryVars, flushTimerVars,
                   fileVars>>

SendConfigs == [maxRetries : 0..MaxSendRetries, onSuccessThrows : BOOLEAN]

\* No flush has captured a batch yet.
SendNotStarted ==
    /\ sendAttempt = 0
    /\ sendPc = "idle"
    /\ signalAborted = FALSE
    /\ timeoutPending = FALSE
    /\ sendRequests = <<>>
    /\ attemptLog = <<>>
    /\ callbackLog = <<>>

\* The transport of the other specifications: default retries, no flush made.
SendIdle ==
    /\ sendConfig = [maxRetries |-> 1, onSuccessThrows |-> FALSE]
    /\ SendNotStarted

\* ======================================================================
\* transports/file.ts : FileTransport write / flush / close / processQueue
\* ======================================================================
\* (mutation of ProcessQueueReturnsAtOnce: the isWriting test is dropped)
ProcessQueueReturnsAtOnce_NoWritingTest(writing, queue) ==
    Len(queue) = 0

\* if (this.isWriting || this.writeQueue.length === 0) { return }
ProcessQueueReturnsAtOnce(writing, queue) ==
    writing \/ Len(queue) = 0

\* const operation = this.writeQueue.shift(); await operation(): the
\* operation runs up to its first await.
StartOperation(owner, queue) ==
    [owner |-> owner, entry |-> Head(queue), step |-> "ensureDirectoryExists"]

\* processQueue() called by the call numbered owner, with the queue as the
\* caller left it, up to its return or its first await.
EnterProcessQueue(owner, queue) ==
    IF ProcessQueueReturnsAtOnce(isWriting, queue)
    THEN /\ writeQueue' = queue
         /\ UNCHANGED <<isWriting, executing>>
    ELSE /\ isWriting' = TRUE
         /\ writeQueue' = Tail(queue)
         /\ executing' = executing \cup {StartOperation(owner, queue)}

\* The promise of the flush() / close() call numbered owner settles.
SettleFlush(results, owner, status, appended, remaining) ==
    [i \in DOMAIN results |->
        IF results[i].owner = owner /\ results[i].status = "pending"
        THEN [results[i] EXCEPT !.status = status,
                                !.appended = appended,
                                !.remaining = remaining]
        ELSE results[i]]

\* The entries whose write operation has not completed.
NotYetWritten(queue, running) ==
    Range(queue) \cup {op.entry : op \in running}

\* write(entry): the operation is pushed, then processQueue().
FileWrite ==
    /\ fileWrites < MaxFileWrites
    /\ fileWrites' = fileWrites + 1
    /\ fileCalls' = fileCalls + 1
    /\ EnterProcessQueue(fileCalls + 1, Append(writeQueue, fileWrites + 1))
    /\ UNCHANGED <<fileContent, fileFailures, flushResults>>
    /\ UNCHANGED <<coreVars, dispatchVars, httpVars, ctorVars, disposeVars, buildVars,
                   cacheVars, locationVars, stringifyVars, retryVars, flushTimerVars,
                   sendVars>>

\* flush(), and close() which awaits flush(): processQueue().
FileFlush(call) ==
    /\ Len(flushResults) < MaxFileFlushes
    /\ fileCalls' = fileCalls + 1
    /\ EnterProcessQueue(fileCalls + 1, writeQueue)
    /\ flushResults' = Append(flushResults,
          [call      |-> call,
           owner     |-> fileCalls + 1,
           writing   |-> isWriting,
           before    |-> NotYetWritten(writeQueue, executing),
           status    |-> IF ProcessQueueReturnsAtOnce(isWriting, writeQueue)
                         THEN "resolved" ELSE "pending",
           appended  |-> Range(fileContent),
           remaining |-> NotYetWritten(writeQueue, executing)])
    /\ UNCHANGED <<fileContent, fileWrites, fileFailures>>
    /\ UNCHANGED <<coreVars, dispatchVars, httpVars, ctorVars, disposeVars, buildVars,
                   cacheVars, locationVars, stringifyVars, retryVars, flushTimerVars,
                   sendVars>>

\* await this.ensureDirectoryExists() / await this.checkRotation() return:
\* both catch what their file system calls throw.
OperationAdvances(op) ==
    /\ op \in executing
    /\ op.step \in {"ensureDirectoryExists", "checkRotation"}
    /\ executing' = (executing \ {op}) \cup
          {[op EXCEPT !.step = IF op.step = "ensureDirectoryExists"
                               THEN "checkRotation" ELSE "writeToFile"]}
    /\ UNCHANGED <<writeQueue, isWriting, fileContent, fileCalls, fileWrites,
                   fileFailures, flushResults>>
    /\ UNCHANGED <<coreVars, dispatchVars, httpVars, ctorVars, disposeVars, buildVars,
                   cacheVars, locationVars, stringifyVars, retryVars, flushTimerVars,
                   sendVars>>

\* await this.writeToFile(entry) returns: the line is appended, and the
\* while loop of processQueue shifts the next operation or ends (finally).
OperationAppends(op) ==
    /\ op \in executing
    /\ op.step = "writeToFile"
    /\ fileContent' = Append(fileContent, op.entry)
    /\ IF Len(writeQueue) > 0
       THEN /\ executing' = (executing \ {op}) \cup {StartOperation(op.owner, writeQueue)}
            /\ writeQueue' = Tail(writeQueue)
            /\ UNCHANGED <<isWriting, flushResults>>
       ELSE /\ executing' = executing \ {op}
            /\ isWriting' = FALSE
            /\ flushResults' = SettleFlush(flushResults, op.owner, "resolved",
                                           Range(fileContent'),
                                           NotYetWritten(writeQueue, executing'))
            /\ UNCHANGED writeQueue
    /\ UNCHANGED <<fileCalls, fileWrites, fileFailures>>
    /\ UNCHANGED <<coreVars, dispatchVars, httpVars, ctorVars, disposeVars, buildVars,
                   cacheVars, locationVars, stringifyVars, retryVars, flushTimerVars,
                   sendVars>>

\* writeToFile throws (formatEntry or fs.appendFile): the exception leaves
\* the while loop, finally resets isWriting, the caller's promise rejects;
\* the operations still queued stay queued.
OperationThrows(op) ==
    /\ op \in executing
    /\ op.step = "writeToFile"
    /\ fileFailures < MaxFileFailures
    /\ fileFailures' = fileFailures + 1
    /\ executing' = executing \ {op}
    /\ isWriting' = FALSE
    /\ flushResults' = SettleFlush(flushResults, op.owner, "rejected",
                                   Range(fileContent),
                                   NotYetWritten(writeQueue, executing'))
    /\ UNCHANGED <<writeQueue, fileContent, fileCalls, fileWrites>>
    /\ UNCHANGED <<coreVars, dispatchVars, httpVars, ctorVars, disposeVars, buildVars,
                   cacheVars, locationVars, stringifyVars, retryVars, flushTimerVars,
                   sendVars>>

\* The FileTransport after its constructor.
FileConstructed ==
    /\ writeQueue = <<>>
    /\ isWriting = FALSE
    /\ executing = {}
    /\ fileContent = <<>>
    /\ fileCalls = 0
    /\ fileWrites = 0
    /\ fileFailures = 0
    /\ flushResults = <<>>

LaterDefault ==
    /\ CacheEmpty /\ LocationIdle /\ StringifyIdle /\ RetryIdle /\ FlushTimerIdle
    /\ SendIdle /\ FileConstructed

\* What the specifications of the three components leave untouched.
RestDefault == CtorDone /\ DisposeDefault /\ BuildIdle /\ LaterDefault

\* ======================================================================
\* Specifications: one per component, the other components left as
\* constructed with a fixed configuration.
\* ======================================================================
CoreDefault == batchConfig = [enabled |-> FALSE, maxSize |-> 1,
                              flushInterval |-> 1, maxDelay |-> 1]

DispatchDefault ==
    /\ dconfig = [minLevel |-> "debug", silent |-> FALSE]
    /\ transports = <<"ok">>

HttpDefault == hconfig = [batchSize |-> 1, maxRetries |-> 1]

InitCore ==
    /\ batchConfig \in BatchConfigs
    /\ CoreConstructed
    /\ DispatchDefault /\ DispatchConstructed
    /\ RestDefault
    /\ HttpDefault /\ HttpConstructed

NextCore ==
    \/ \E level \in CoreLevels : CoreLog(level)
    \/ CoreFlush
    \/ CoreTimerFires
    \/ CoreTick

SpecCore == InitCore /\ [][NextCore]_vars

\* The batching logger when a write (formatLogEntry or the console call)
\* may throw.
NextCoreThrowing ==
    \/ NextCore
    \/ \E level \in CoreLevels : CoreLogThrows(level)
    \/ CoreFlushThrows
    \/ CoreTimerFiresThrows

SpecCoreThrowing == InitCore /\ [][NextCoreThrowing]_vars

\* The batching logger with string and function messages, batching disabled
\* or enabled with a buffer of two entries.
LazyConfigs ==
    {c \in BatchConfigs : c.maxSize = 2 /\ c.flushInterval = 1 /\ c.maxDelay = MaxDelayBound}

InitLazy ==
    /\ batchConfig \in LazyConfigs
    /\ CoreConstructed
    /\ DispatchDefault /\ DispatchConstructed
    /\ RestDefault
    /\ HttpDefault /\ HttpConstructed

NextLazy ==
    \/ \E level \in CoreLevels : \E message \in Messages : CoreLogMessage(level, message)
    \/ CoreFlush
    \/ CoreTimerFires
    \/ CoreTick

SpecLazy == InitLazy /\ [][NextLazy]_vars

InitDispatch ==
    /\ dconfig \in DispatchConfigs
    /\ transports \in TransportLists
    /\ DispatchConstructed
    /\ CoreDefault /\ CoreConstructed
    /\ HttpDefault /\ HttpConstructed
    /\ RestDefault

NextDispatch == \E level \in DispatchLevels : DispatchLog(level)

SpecDispatch == InitDispatch /\ [][NextDispatch]_vars

InitHttp ==
    /\ hconfig \in HttpConfigs
    /\ HttpConstructed
    /\ CoreDefault /\ CoreConstructed
    /\ DispatchDefault /\ DispatchConstructed
    /\ RestDefault

NextHttp ==
    \/ HttpLog
    \/ HttpTimerTick
    \/ HttpFlush
    \/ HttpDispose
    \/ \E i \in 1..Len(batches) : SendSucceeds(i)
    \/ \E i \in 1..Len(batches) : SendFails(i)
    \/ \E i \in 1..Len(batches) : SleepEnds(i)
    \/ \E i \in 1..Len(batches) : FlushCatch(i)

SpecHttp == InitHttp /\ [][NextHttp]_vars

\* new HttpTransport(config): the field initialisers have run (empty buffer,
\* flushTimer null, isFlushing false), this.config is not assigned yet.
InitHttpNew ==
    /\ ctorInput \in CtorInputs
    /\ ctorPc = "new"
    /\ ctorError = "none"
    /\ hconfig = [batchSize |-> 0, maxRetries |-> 0]
    /\ hbuffer = <<>>
    /\ flushTimer = FALSE
    /\ isFlushing = FALSE
    /\ batches = <<>>
    /\ requests = <<>>
    /\ errorCalls = <<>>
    /\ successCalls = <<>>
    /\ hlogged = <<>>
    /\ disposals = <<>>
    /\ CoreDefault /\ CoreConstructed
    /\ DispatchDefault /\ DispatchConstructed
    /\ DisposeDefault
    /\ BuildIdle
    /\ LaterDefault

NextHttpNew ==
    \/ CtorValidateEndpoint
    \/ CtorValidateHeaders
    \/ CtorStart
    \/ Constructed /\ HttpLog
    \/ Constructed /\ HttpTimerTick
    \/ Constructed /\ \E i \in 1..Len(batches) : SendSucceeds(i)

SpecHttpNew == InitHttpNew /\ [][NextHttpNew]_vars

\* A logger over transports that all accept entries, with every combination
\* of dispose operations; log calls go on while it is disposed of.
InitDispose ==
    /\ dconfig = [minLevel |-> "debug", silent |-> FALSE]
    /\ transports \in {ts \in UNION {[1..n -> TransportBehaviours] : n \in 1..MaxTransports} :
                          \A i \in DOMAIN ts : ts[i] = "ok"}
    /\ DispatchConstructed
    /\ disposeKinds \in DisposeKindLists
    /\ DisposeIdle
    /\ CtorDone
    /\ BuildIdle
    /\ LaterDefault
    /\ CoreDefault /\ CoreConstructed
    /\ HttpDefault /\ HttpConstructed

NextDispose ==
    \/ \E level \in DispatchLevels : DispatchLog(level)
    \/ LoggerDispose
    \/ \E i \in 1..Len(transports) : TransportDisposeSettles(i)
    \/ LoggerDisposeSettles

SpecDispose == InitDispose /\ [][NextDispose]_vars

\* One log call with an arbitrary payload: the entry is built, then formatted.
InitBuild ==
    /\ payload \in Payloads
    /\ builtEntry = BuildEntry(NoObject)
    /\ jsonOut = FormatAsJson(BuildEntry(NoObject))
    /\ productionOut = FormatForProduction(BuildEntry(NoObject))
    /\ buildPc = "input"
    /\ CtorDone
    /\ CoreDefault /\ CoreConstructed
    /\ DispatchDefault /\ DispatchConstructed
    /\ HttpDefault /\ HttpConstructed
    /\ DisposeDefault
    /\ LaterDefault

NextBuild ==
    \/ BuildStep
    \/ FormatStep
    \/ FormatProductionStep

SpecBuild == InitBuild /\ [][NextBuild]_vars

\* The console formatter module: scopes are coloured, the cache is reset.
InitCache ==
    /\ CacheEmpty
    /\ LocationIdle
    /\ StringifyIdle
    /\ RetryIdle
    /\ FlushTimerIdle
    /\ SendIdle
    /\ FileConstructed
    /\ CtorDone
    /\ BuildIdle
    /\ CoreDefault /\ CoreConstructed
    /\ DispatchDefault /\ DispatchConstructed
    /\ HttpDefault /\ HttpConstructed
    /\ DisposeDefault

NextCache ==
    \/ GetScopeColorCall
    \/ FormatForNode
    \/ ResetScopeCache

SpecCache == InitCache /\ [][NextCache]_vars

\* The location resolver: one parseLocation call of either copy on a stack.
InitLocation ==
    /\ stackInput \in StackInputs
    /\ isProduction \in BOOLEAN
    /\ locCopy = "utils"
    /\ callerLine = Null
    /\ patternInputs = {}
    /\ locResult = Null
    /\ locPc = "input"
    /\ CacheEmpty
    /\ StringifyIdle
    /\ RetryIdle
    /\ FlushTimerIdle
    /\ SendIdle
    /\ FileConstructed
    /\ CtorDone
    /\ BuildIdle
    /\ CoreDefault /\ CoreConstructed
    /\ DispatchDefault /\ DispatchConstructed
    /\ HttpDefault /\ HttpConstructed
    /\ DisposeDefault

NextLocation ==
    \/ UtilsParseLocation
    \/ RootParseLocation

SpecLocation == InitLocation /\ [][NextLocation]_vars

\* safeStringify called on an object graph.
InitStringify ==
    /\ objectGraph \in ObjectGraphs
    /\ stringified = Null
    /\ CacheEmpty
    /\ LocationIdle
    /\ RetryIdle
    /\ FlushTimerIdle
    /\ SendIdle
    /\ FileConstructed
    /\ CtorDone
    /\ BuildIdle
    /\ CoreDefault /\ CoreConstructed
    /\ DispatchDefault /\ DispatchConstructed
    /\ HttpDefault /\ HttpConstructed
    /\ DisposeDefault

NextStringify == SafeStringify

SpecStringify == InitStringify /\ [][NextStringify]_vars

\* sendWithRetry of either HTTP transport, each attempt succeeding or failing.
InitRetry ==
    /\ retryClass \in RetryClasses
    /\ retryLimit \in 0..MaxBackoffRetries
    /\ retryAttempt = 0
    /\ retryWaits = <<>>
    /\ retryPc = "idle"
    /\ CacheEmpty
    /\ LocationIdle
    /\ StringifyIdle
    /\ FlushTimerIdle
    /\ SendIdle
    /\ FileConstructed
    /\ CtorDone
    /\ BuildIdle
    /\ CoreDefault /\ CoreConstructed
    /\ DispatchDefault /\ DispatchConstructed
    /\ HttpDefault /\ HttpConstructed
    /\ DisposeDefault

NextRetry ==
    \/ SendWithRetryStart
    \/ RetrySendSucceeds
    \/ RetrySendFails
    \/ RetrySleepEnds

SpecRetry == InitRetry /\ [][NextRetry]_vars

\* The HTTPTransport: writes, flushes, close and timeouts firing.
InitFlushTimer ==
    /\ transportConfig \in [batchSize : 1..MaxTransportBatch]
    /\ TransportConstructed
    /\ CacheEmpty
    /\ LocationIdle
    /\ StringifyIdle
    /\ RetryIdle
    /\ SendIdle
    /\ FileConstructed
    /\ CtorDone
    /\ BuildIdle
    /\ CoreDefault /\ CoreConstructed
    /\ DispatchDefault /\ DispatchConstructed
    /\ HttpDefault /\ HttpConstructed
    /\ DisposeDefault

NextFlushTimer ==
    \/ Write
    \/ Flush
    \/ Close
    \/ \E handle \in 1..MaxWrites : TimeoutFires(handle)

SpecFlushTimer == InitFlushTimer /\ [][NextFlushTimer]_vars

\* One batch of the HttpTransport from its capture to its callback.
InitSend ==
    /\ sendConfig \in SendConfigs
    /\ SendNotStarted
    /\ CacheEmpty
    /\ LocationIdle
    /\ StringifyIdle
    /\ RetryIdle
    /\ FlushTimerIdle
    /\ FileConstructed
    /\ CtorDone
    /\ BuildIdle
    /\ CoreDefault /\ CoreConstructed
    /\ DispatchDefault /\ DispatchConstructed
    /\ HttpDefault /\ HttpConstructed
    /\ DisposeDefault

NextSend ==
    \/ SendFlushStart
    \/ \E answer \in Answers : FetchAnswered(answer)
    \/ SendTimeoutElapses
    \/ AbortedFetchSettles
    \/ SendSleepEnds

SpecSend == InitSend /\ [][NextSend]_vars

\* The FileTransport: write, flush and close calls interleaved with the
\* steps of the write operations.
InitFile ==
    /\ FileConstructed
    /\ CacheEmpty
    /\ LocationIdle
    /\ StringifyIdle
    /\ RetryIdle
    /\ FlushTimerIdle
    /\ SendIdle
    /\ CtorDone
    /\ BuildIdle
    /\ CoreDefault /\ CoreConstructed
    /\ DispatchDefault /\ DispatchConstructed
    /\ HttpDefault /\ HttpConstructed
    /\ DisposeDefault

NextFile ==
    \/ FileWrite
    \/ \E call \in {"flush", "close"} : FileFlush(call)
    \/ \E op \in executing : OperationAdvances(op)
    \/ \E op \in executing : OperationAppends(op)
    \/ \E op \in executing : OperationThrows(op)

SpecFile == InitFile /\ [][NextFile]_vars

\* ----------------------------------------------------------------------
\* Claims about core/logger.ts (checked under SpecCore)
\* ----------------------------------------------------------------------
\* The console calls an ordered run of entries produces.
OutputOf(entries) == [i \in 1..Len(entries) |-> Output(entries[i])]

\* A step that is one log call.
IsCoreLogStep == Len(logged') = Len(logged) + 1

\* The time elapsed since the first entry of the buffer a log call at time
\* `now` appends to has reached maxDelay (the new entry is the first entry of
\* an empty buffer).
MaxDelayReached ==
    LET first == IF Len(batchState.buffer) = 0 THEN now
                 ELSE batchState.firstEntryTime[1]
    IN now - first >= batchConfig.maxDelay

TimesInvoked(i, id) ==
    Cardinality({k \in 1..Len(invocations[i]) : invocations[i][k] = id})

\* The call passes filtering as the documentation defines it.
PassesFilter(level) ==
    /\ ~dconfig.silent
    /\ LOG_LEVEL_PRIORITY[level] >= LOG_LEVEL_PRIORITY[dconfig.minLevel]

\* C5: for every log call that passes filtering, whatever one transport does
\* (throw synchronously, return a rejected promise), every configured
\* transport receives the entry exactly once and the log method returns
\* normally to its caller.
C5_TransportFailureIsIsolated ==
    \A c \in 1..Len(calls) :
        PassesFilter(calls[c].level) =>
            /\ \A i \in 1..Len(transports) : TimesInvoked(i, calls[c].id) = 1
            /\ calls[c].outcome = "returned"

\* C6: a log call below minLevel, or any log call when silent, invokes no
\* transport; a log call at or above minLevel with silent false invokes each
\* configured transport exactly once.
C6_LevelFilteringInvokesEachOnce ==
    \A c \in 1..Len(calls) :
        \A i \in 1..Len(transports) :
            TimesInvoked(i, calls[c].id) =
                IF PassesFilter(calls[c].level) THEN 1 ELSE 0

\* ----------------------------------------------------------------------
\* Claims about HttpTransport (checked under SpecHttp)
\* ----------------------------------------------------------------------
\* The batches whose flush() has not finished: sending, sleeping between
\* attempts, or rejected with the catch block still to run.
InFlight == {i \in 1..Len(batches) : batches[i].pc # "done"}

\* The captured batches' entries, concatenated in capture order.
RECURSIVE CapturedUpTo(_)
CapturedUpTo(n) ==
    IF n = 0 THEN <<>> ELSE CapturedUpTo(n - 1) \o batches[n].entries

LoggedIds == [k \in 1..Len(hlogged) |-> hlogged[k].id]

\* The send attempts made for batch i.
AttemptsOf(i) == Cardinality({r \in 1..Len(requests) : requests[r].batch = i})

\* C7: at most one batch is in flight at any time, and while one is (isFlushing
\* set, through its retries and backoff sleeps) no step captures another
\* batch, issues a request for another batch or removes anything from the
\* buffer.
C7_AtMostOneBatchInFlight ==
    /\ [](Cardinality(InFlight) <= 1 /\ (InFlight # {} => isFlushing))
    /\ [][InFlight # {} =>
            /\ Len(batches') = Len(batches)
            /\ IsPrefix(hbuffer, hbuffer')
            /\ \A r \in (Len(requests) + 1)..Len(requests') :
                  requests'[r].batch \in InFlight]_vars

\* C7 witness: a batch is in its backoff sleep while the buffer behind it has
\* reached batchSize again (the size trigger arrived and was short-circuited).
C7_Witness ==
    /\ \E i \in InFlight : batches[i].pc = "sleeping"
    /\ Len(hbuffer) >= hconfig.batchSize

\* C8: every logged entry is in at most one batch: the captured batches in
\* capture order followed by the buffer are exactly the log sequence, and a
\* flush captures exactly the entries buffered at that instant (the entry
\* just pushed included), in log order, leaving an empty buffer.
C8_BatchesPartitionTheLog ==
    /\ [](CapturedUpTo(Len(batches)) \o hbuffer = LoggedIds)
    /\ [][Len(batches') # Len(batches) =>
            /\ Len(batches') = Len(batches) + 1
            /\ Len(Last(batches').entries) > 0
            /\ Last(batches').entries =
                   hbuffer \o [k \in 1..(Len(hlogged') - Len(hlogged)) |->
                                  hlogged'[Len(hlogged) + k].id]
            /\ hbuffer' = <<>>]_vars

\* C8 witness: an entry logged while a batch was being sent has been captured
\* in a later batch.
C8_Witness ==
    \E j \in 2..Len(batches) :
        \E k \in 1..Len(batches[j].entries) :
            hlogged[batches[j].entries[k]].inflight

\* C9: a flush whose every send attempt fails performs exactly maxRetries + 1
\* send attempts before giving up.
C9_FailedBatchMakesMaxRetriesPlusOneAttempts ==
    \A i \in 1..Len(batches) :
        batches[i].outcome = "failure" => AttemptsOf(i) = hconfig.maxRetries + 1

\* The i-th captured run of the log sequence.
RunOfLog(i) ==
    SubSeq(LoggedIds, Len(CapturedUpTo(i - 1)) + 1, Len(CapturedUpTo(i)))

\* C10: when all attempts of a captured batch have failed, onError has been
\* called exactly once for it, with exactly the batch's entries in log order;
\* onError is called for no other batch; and none of the failed batch's
\* entries is in the buffer, in another batch or in a request issued after
\* the onError call.
C10_OnErrorOncePerFailedBatch ==
    \A i \in 1..Len(batches) :
        LET errs == {k \in 1..Len(errorCalls) : errorCalls[k].batch = i} IN
        IF batches[i].outcome = "failure"
        THEN /\ Cardinality(errs) = 1
             /\ \A k \in errs :
                   /\ errorCalls[k].entries = RunOfLog(i)
                   /\ errorCalls[k].entries = batches[i].entries
                   /\ \A e \in Range(batches[i].entries) :
                         /\ e \notin Range(hbuffer)
                         /\ \A j \in 1..Len(batches) :
                               j # i => e \notin Range(batches[j].entries)
                         /\ \A r \in (errorCalls[k].requestsBefore + 1)..Len(requests) :
                               e \notin Range(requests[r].entries)
        ELSE errs = {}

\* C10 witness: a batch of two entries failed after at least one attempt, an
\* entry was logged during its send, and a later request has been issued.
C10_Witness ==
    \E k \in 1..Len(errorCalls) :
        /\ Len(errorCalls[k].entries) = 2
        /\ AttemptsOf(errorCalls[k].batch) >= 1
        /\ Len(requests) > errorCalls[k].requestsBefore
        /\ \E n \in 1..Len(hlogged) : hlogged[n].inflight


\* A step in which the promise of dispose() call k resolves.
DisposeResolvesNow(k) ==
    /\ k \in 1..Len(disposals')
    /\ disposals'[k].resolved
    /\ (k > Len(disposals) \/ ~disposals[k].resolved)

\* C11: when the promise returned by dispose() resolves, the flush timer is
\* cancelled and every entry that was buffered when dispose() was called is
\* in a captured batch whose send has completed, none of them left in the
\* buffer; also when dispose() was called while an earlier flush was in
\* flight with entries buffered behind it.
C11_DisposeResolvesAfterFinalFlush ==
    [][\A k \in 1..MaxDisposeCalls :
          DisposeResolvesNow(k) =>
            /\ ~flushTimer'
            /\ \A e \in Range(disposals'[k].buffered) :
                  /\ e \notin Range(hbuffer')
                  /\ \E i \in 1..Len(batches') :
                        /\ e \in Range(batches'[i].entries)
                        /\ batches'[i].pc = "done"]_vars

\* A step that is one log() call.
IsHttpLogStep == Len(hlogged') = Len(hlogged) + 1

\* C12 as stated: after any log() call returns the buffer holds fewer than
\* batchSize entries, whether or not another send is in progress.
C12_BufferBelowBatchSizeAfterLog ==
    [][IsHttpLogStep => Len(hbuffer') < hconfig.batchSize]_vars

\* C12 amended: a log() call that brings the buffer to batchSize or more
\* while no flush is in flight starts, within the call and whatever the timer
\* state, a flush that captures the whole buffer; a call made while a flush
\* is in flight only appends. Hence after any log() call returns, the buffer
\* holds fewer than batchSize entries or a flush is in flight.
C12_SizeTriggerUnlessInFlight ==
    [][IsHttpLogStep =>
          LET buf == Append(hbuffer, Last(hlogged').id) IN
          /\ (Len(buf) >= hconfig.batchSize /\ ~isFlushing) =>
                /\ Len(batches') = Len(batches) + 1
                /\ Last(batches').entries = buf
                /\ hbuffer' = <<>>
                /\ isFlushing'
          /\ (Len(buf) < hconfig.batchSize \/ isFlushing) =>
                /\ hbuffer' = buf
                /\ batches' = batches
          /\ (Len(hbuffer') < hconfig.batchSize \/ isFlushing')]_vars

\* C12 witness: after dispose() stopped the interval timer, log() calls made
\* while nothing was in flight brought the buffer to batchSize >= 2 and the
\* last of them flushed it.
C12_Witness ==
    /\ ~flushTimer
    /\ hconfig.batchSize >= 2
    /\ \E i \in 1..Len(batches) :
          /\ Len(batches[i].entries) = hconfig.batchSize
          /\ \A e \in Range(batches[i].entries) :
                /\ ~hlogged[e].inflight
                /\ \E k \in 1..Len(disposals) :
                      \E d \in Range(disposals[k].buffered) : e > d


\* ----------------------------------------------------------------------
\* Claims about the HttpTransport constructor (checked under SpecHttpNew)
\* ----------------------------------------------------------------------
\* The scheme of an endpoint is http or https, in any letter case.
HasHttpScheme(endpoint) ==
    /\ endpoint.scheme # Null
    /\ ToLowerCase(endpoint.scheme[1]) \in {<<"h","t","t","p">>, <<"h","t","t","p","s">>}

\* The constructor has returned or thrown.
CtorFinished == ctorPc \in {"constructed", "threw"}

\* C13: construction throws on the endpoint exactly when it does not parse as
\* an absolute URL or its scheme is not http/https, and then no flush timer
\* was started and no request was issued, nor is any ever; an endpoint that
\* parses with scheme http or https passes the endpoint check, and a timer
\* runs and requests are issued only on a constructed transport.
C13_EndpointValidatedBeforeAnyActivity ==
    /\ (CtorFinished =>
          ((ctorPc = "threw" /\ ctorError \in {"url", "protocol"})
             <=> (ParseURL(ctorInput.endpoint) = Null
                    \/ ~HasHttpScheme(ctorInput.endpoint))))
    /\ (ctorPc # "constructed" => (~flushTimer /\ requests = <<>> /\ hbuffer = <<>>))
    /\ ((CtorFinished /\ ParseURL(ctorInput.endpoint) # Null
           /\ HasHttpScheme(ctorInput.endpoint) /\ ctorInput.headers = Null)
          => (ctorPc = "constructed" /\ flushTimer))

\* C13 witness: an endpoint that parses, with a scheme other than http and
\* https, was rejected although its headers were acceptable.
C13_Witness ==
    /\ ctorPc = "threw"
    /\ ctorError = "protocol"
    /\ ctorInput.endpoint.host
    /\ ValidateHeaders(ctorInput.headers) = "none"
    /\ ctorInput.headers # Null

\* Two header names are equal when compared case-insensitively.
EqualsIgnoringCase(a, b) ==
    /\ Len(a) = Len(b)
    /\ \A i \in 1..Len(a) : ToLowerChar(a[i]) = ToLowerChar(b[i])

\* Some custom header key equals host, content-length or transfer-encoding.
HasRestrictedKey(headers) ==
    /\ headers # Null
    /\ \E key \in headers[1] : \E r \in RESTRICTED_HEADERS : EqualsIgnoringCase(key, r)

\* C14: with a valid endpoint, construction throws if and only if some custom
\* header key equals, case-insensitively, host, content-length or
\* transfer-encoding; every other key set and absent headers are accepted.
C14_RestrictedHeadersRejected ==
    (CtorFinished /\ ValidateEndpoint(ctorInput.endpoint) = "none") =>
        /\ (ctorPc = "threw") <=> HasRestrictedKey(ctorInput.headers)
        /\ (ctorPc = "threw") => (ctorError = "header" /\ ~flushTimer)
        /\ (ctorPc = "constructed") => flushTimer

\* C14 witness: a key set holding a harmless key and a restricted name in
\* another letter case was rejected.
C14_Witness ==
    /\ ctorPc = "threw"
    /\ ctorError = "header"
    /\ ctorInput.headers # Null
    /\ \E key \in ctorInput.headers[1] : key \notin RESTRICTED_HEADERS /\ IsRestricted(key)
    /\ \E key \in ctorInput.headers[1] : ~IsRestricted(key)


\* ----------------------------------------------------------------------
\* Further claims about core/logger.ts (checked under SpecCore)
\* ----------------------------------------------------------------------
\* A step in which flushBatch drained a non-empty buffer.
IsCoreFlushStep == Len(flushes') = Len(flushes) + 1

\* C15: a manual, size-triggered or max-delay-triggered flush cancels the
\* pending timer, so a cancelled timer never fires: every pending timer is
\* the one recorded for the current, non-empty buffer, no timer is pending
\* after a flush by another trigger, and a timer that flushes is the timer
\* that was started for the buffer it drains.
C15_CancelledTimerNeverFires ==
    /\ [](\A t \in timers :
             /\ batchState.timer = Some(t.id)
             /\ Len(batchState.buffer) > 0)
    /\ [][IsCoreFlushStep =>
            /\ Last(flushes').by \in {"manual", "size", "delay"} => timers' = {}
            /\ Last(flushes').by = "timer" =>
                  \E t \in timers : /\ batchState.timer = Some(t.id)
                                    /\ timers' = timers \ {t}
                                    /\ now >= t.due]_vars

\* C15 witness: a manual flush drained a buffer whose timer was pending, and
\* entries logged afterwards were later output by their own timer.
C15_Witness ==
    /\ timerSeq >= 2
    /\ \E i \in 1..Len(flushes) : \E j \in (i + 1)..Len(flushes) :
          /\ flushes[i].by = "manual"
          /\ flushes[j].by = "timer"
    /\ timers = {}

\* C16: once the time since the first buffered entry exceeds maxDelay a flush
\* is triggered, also when no further log call arrives: whenever the buffer
\* has held its first entry for longer than maxDelay, a flush of it is due
\* (a pending timer has reached its time).
C16_MaxDelayEnforcedWithoutLogCall ==
    (/\ batchConfig.enabled
     /\ Len(batchState.buffer) > 0
     /\ batchState.firstEntryTime # Null
     /\ now - batchState.firstEntryTime[1] > batchConfig.maxDelay)
        => \E t \in timers : t.due <= now


\* ----------------------------------------------------------------------
\* Claims about NextNodeLogger.dispose (checked under SpecDispose)
\* ----------------------------------------------------------------------
\* C17: dispose() invokes the dispose of every transport that has one, and
\* its promise settles only after every one of those dispose operations has
\* settled, also when one of them rejects while others are pending.
C17_DisposeWaitsForEveryTransport ==
    /\ loggerDispose # "idle" =>
          \A i \in 1..Len(transports) :
              HasDispose(disposeKinds[i]) => disposeState[i] # "idle"
    /\ loggerDispose \in {"resolved", "rejected"} =>
          \A i \in 1..Len(transports) :
              HasDispose(disposeKinds[i]) => disposeState[i] \in {"resolved", "rejected"}


\* ----------------------------------------------------------------------
\* Claims about entry building and JSON formatting (checked under SpecBuild)
\* ----------------------------------------------------------------------
\* The keys of the payload other than scope.
OtherPayloadKeys ==
    IF payload.present THEN (DOMAIN payload.map) \ {"scope"} ELSE {}

\* C18: the built entry's object never contains the key scope; entry.scope
\* equals the payload's scope value; every other payload key is kept in
\* object with its value unchanged (and object holds nothing else); object
\* is undefined, not an empty mapping, when the payload is absent or has no
\* key other than scope.
C18_ScopeHoistedOutOfObject ==
    buildPc # "input" =>
        /\ builtEntry.object.present => "scope" \notin DOMAIN builtEntry.object.map
        /\ builtEntry.scope =
              (IF payload.present /\ "scope" \in DOMAIN payload.map
               THEN payload.map["scope"] ELSE Undefined)
        /\ \A k \in OtherPayloadKeys :
              /\ builtEntry.object.present
              /\ k \in DOMAIN builtEntry.object.map
              /\ builtEntry.object.map[k] = payload.map[k]
        /\ builtEntry.object.present => DOMAIN builtEntry.object.map = OtherPayloadKeys
        /\ builtEntry.object.present <=> OtherPayloadKeys # {}
        /\ ~builtEntry.object.present => builtEntry.object = NoObject

\* C18 witness: a payload holding only a scope was built into an entry with
\* that scope and no object.
C18_Witness ==
    /\ buildPc = "built"
    /\ payload.present
    /\ DOMAIN payload.map = {"scope"}
    /\ payload.map["scope"] = "Auth"
    /\ builtEntry.scope = "Auth"
    /\ ~builtEntry.object.present

\* The payload keys of the entry that are not dangerous and have a defined value.
NormalKeys ==
    IF builtEntry.object.present
    THEN {k \in DOMAIN builtEntry.object.map :
             /\ k \notin {"__proto__", "constructor", "prototype"}
             /\ builtEntry.object.map[k] # Undefined}
    ELSE {}

\* The top-level keys of the output whose value comes from the payload.
PayloadDerivedKeys ==
    IF builtEntry.object.present /\ ~jsonOut.threw
    THEN {k \in (DOMAIN jsonOut.top) \cap (DOMAIN builtEntry.object.map) :
             jsonOut.top[k] = builtEntry.object.map[k]}
    ELSE {}

\* C20: formatAsJson and formatAsJsonPretty return output in which no payload
\* key named __proto__, constructor or prototype appears and every other
\* payload key with a defined value appears at the top level with its value:
\* the payload-derived top-level keys are exactly the normal ones.
C20_DangerousKeysDroppedOthersKept ==
    buildPc = "formatted" =>
        /\ ~jsonOut.threw
        /\ \A k \in {"__proto__", "constructor", "prototype"} : k \notin DOMAIN jsonOut.top
        /\ \A k \in NormalKeys :
              k \in DOMAIN jsonOut.top /\ jsonOut.top[k] = builtEntry.object.map[k]
        /\ PayloadDerivedKeys = NormalKeys


\* ----------------------------------------------------------------------
\* Claims about lazy messages (checked under SpecLazy)
\* ----------------------------------------------------------------------
\* C19: a message function is invoked exactly once per log call, inside that
\* call, and never again at flush time, with batching disabled or enabled:
\* every log call records one invocation for a function message (none for a
\* string), the count of a call never changes afterwards, in particular not
\* in a step that flushes, and every entry, buffered ones included, carries
\* the resolved string.
C19_LazyMessageInvokedOnceInCall ==
    /\ [](/\ Len(thunkCalls) = Len(logged)
          /\ \A i \in 1..Len(thunkCalls) :
                /\ thunkCalls[i].count = (IF thunkCalls[i].lazy THEN 1 ELSE 0)
                /\ logged[i].message = "string"
          /\ \A k \in 1..Len(batchState.buffer) : batchState.buffer[k].message = "string")
    /\ [][/\ IsPrefix(thunkCalls, thunkCalls')
          /\ IsCoreLogStep => Len(thunkCalls') = Len(thunkCalls) + 1
          /\ ~IsCoreLogStep => thunkCalls' = thunkCalls]_vars

\* C19 witness: with batching enabled, two entries with function messages
\* were buffered and then output by a flush, each function invoked once.
C19_Witness ==
    /\ batchConfig.enabled
    /\ \E f \in 1..Len(flushes) :
          /\ Len(flushes[f].entries) = 2
          /\ \A k \in 1..2 : /\ thunkCalls[flushes[f].entries[k].id].lazy
                             /\ thunkCalls[flushes[f].entries[k].id].count = 1
    /\ Len(console) >= 2


\* C21: the output of formatAsJson is a single JSON object that contains
\* level, message, timestamp, location and requestId, contains scope iff the
\* entry has one, contains every (non-dangerous) payload key with a defined
\* value at the top level with its value, has no nested object key holding
\* the payload, and omits the payload keys whose value is undefined.
C21_JsonOutputIsFlat ==
    (buildPc = "formatted" /\ jsonOut.indent = 0) =>
        /\ ~jsonOut.threw
        /\ {"level", "message", "timestamp", "location", "requestId"} \subseteq DOMAIN jsonOut.top
        /\ ("scope" \in DOMAIN jsonOut.top) <=> (builtEntry.scope \notin {Undefined, ""})
        /\ "object" \notin DOMAIN jsonOut.top
        /\ \A k \in NormalKeys :
              k \in DOMAIN jsonOut.top /\ jsonOut.top[k] = builtEntry.object.map[k]
        /\ builtEntry.object.present =>
              \A k \in DOMAIN builtEntry.object.map :
                  (builtEntry.object.map[k] = Undefined
                     /\ k \notin {"level", "message", "timestamp", "location", "requestId"})
                  => k \notin DOMAIN jsonOut.top


\* ----------------------------------------------------------------------
\* Claims about the scope colour cache (checked under SpecCache)
\* ----------------------------------------------------------------------
\* C22: after any sequence of getScopeColor calls with arbitrary scope
\* strings, the empty string included, the cache holds at most 100 entries,
\* and a new scope arriving with the cache at capacity evicts the
\* oldest-inserted scope.
C22_ScopeCacheBounded ==
    /\ [](Len(scopeColorMap) <= 100)
    /\ [][(/\ Len(scopeColorMap) = 100
           /\ Len(scopeColorMap') > 0
           /\ Last(scopeColorMap') # Last(scopeColorMap))
             => /\ Len(scopeColorMap') = 100
                /\ \A i \in 1..99 : scopeColorMap'[i] = scopeColorMap[i + 1]]_vars



\* ----------------------------------------------------------------------
\* Claims about utils/location.ts and location.ts (checked under SpecLocation)
\* ----------------------------------------------------------------------
\* The lines of the stack text a call saw, the header first.
StackLines == Split(stackInput.text)

\* The all-unknown result for the mode of the call.
AllUnknown ==
    IF isProduction THEN [function |-> UNKNOWN]
    ELSE [function |-> UNKNOWN, file |-> UNKNOWN, line |-> 0]

\* The call of utils/location.ts returned.
UtilsReturned == locPc = "returned" /\ locCopy = "utils"

\* No line after the first carries the call-frame marker "at ".
NoLineHasMarker == \A i \in 2..Len(StackLines) : ~Includes(StackLines[i], AT_MARKER)

\* A line in which nothing can be taken for a frame: no "at" followed by a
\* blank and no colon followed by a digit.
IsFrameless(line) ==
    /\ \A i \in 1..(Len(line) - 2) :
           ~(line[i] = "a" /\ line[i + 1] = "t" /\ IsSpace(line[i + 2]))
    /\ \A i \in 1..(Len(line) - 1) : ~(line[i] = ":" /\ IsDigit(line[i + 1]))

AllLinesFrameless == \A i \in 2..Len(StackLines) : IsFrameless(StackLines[i])

\* C23 as stated: parseLocation returns, and when constructing the error
\* throws, or the stack is empty, a single line, or has no line with the
\* call-frame marker after the first, the result is the all-unknown
\* fallback of the mode.
C23_MalformedStackYieldsUnknown ==
    UtilsReturned =>
        /\ locResult # Null
        /\ (stackInput.kind = "throws" \/ NoLineHasMarker) => locResult = Some(AllUnknown)

\* C23 amended: parseLocation always returns, and the result is the
\* all-unknown fallback of the mode when constructing the error throws or
\* when no line after the first has "at" followed by a blank or a colon
\* followed by a digit (an empty or single-line stack has no such line).
C23_FramelessStackYieldsUnknown ==
    UtilsReturned =>
        /\ locResult # Null
        /\ (stackInput.kind = "throws" \/ AllLinesFrameless) => locResult = Some(AllUnknown)

\* A production call on a stack whose lines after the header are frameless,
\* the second one not empty.
C23_Witness ==
    /\ UtilsReturned
    /\ isProduction
    /\ stackInput.kind = "text" /\ AllLinesFrameless
    /\ Len(StackLines) >= 3 /\ StackLines[2] # <<>>
    /\ locResult = Some(AllUnknown)

\* The lines after the header that qualify as the caller's frame for the
\* copy that ran.
QualifyingLines ==
    {i \in 2..Len(StackLines) :
        /\ Includes(StackLines[i], AT_MARKER)
        /\ ~Includes(StackLines[i], NODE_MODULES)
        /\ \A file \in INTERNAL_FILES(locCopy) : ~Includes(StackLines[i], file)}

C25_PatternsRunOnTruncatedLine ==
    locPc = "returned" => \A n \in patternInputs : n <= 500


\* ----------------------------------------------------------------------
\* Claims about safeStringify (checked under SpecStringify)
\* ----------------------------------------------------------------------
\* The objects a reference of `object` leads to.
Referenced(object) ==
    {objectGraph[object][k].object :
        k \in {x \in DOMAIN objectGraph[object] : objectGraph[object][x].kind = "reference"}}

\* The objects reachable from `object` in at most n steps.
RECURSIVE ReachableWithin(_, _)
ReachableWithin(objects, n) ==
    IF n = 0 THEN objects
    ELSE ReachableWithin(objects \cup UNION {Referenced(o) : o \in objects}, n - 1)

\* The graph of the argument is self- or mutually referential: an object
\* reachable from the argument reaches itself.
HasCycle ==
    \E o \in ReachableWithin({1}, MaxObjects) :
        o \in ReachableWithin(Referenced(o), MaxObjects)

\* The object lies on a cycle / no cycle can be reached from it.
OnCycle(o) == o \in ReachableWithin(Referenced(o), MaxObjects)
IsAcyclic(o) == \A x \in ReachableWithin({o}, MaxObjects) : ~OnCycle(x)

\* The tree of `object` under the ancestors `path` in which exactly the
\* references that close a cycle (they lead back to the object or to one of
\* its ancestors) are replaced by the placeholder.
RECURSIVE WithCyclesReplaced(_, _)
WithCyclesReplaced(object, path) ==
    JsonObject([k \in {x \in DOMAIN objectGraph[object] :
                          objectGraph[object][x].kind # "absent"} |->
        IF objectGraph[object][k].kind = "primitive"
        THEN JsonLeaf(TypeToString(objectGraph[object][k].type))
        ELSE IF objectGraph[object][k].object \in path \cup {object}
        THEN JsonLeaf(CIRCULAR_REFERENCE)
        ELSE WithCyclesReplaced(objectGraph[object][k].object, path \cup {object})])

\* What the claim asks of the tree returned for `object` under the
\* ancestors `path`: a reference that closes a cycle is the placeholder; a
\* key holding a primitive, and on an object of a cycle a key referring to a
\* structure without cycles, is present with its value; the same holds
\* below every other reference that was expanded.
RECURSIVE CyclesReplacedSiblingsKept(_, _, _)
CyclesReplacedSiblingsKept(tree, object, path) ==
    /\ "fields" \in DOMAIN tree
    /\ \A k \in DOMAIN objectGraph[object] :
        LET val == objectGraph[object][k]
        IN \/ val.kind = "absent"
           \/ /\ k \in DOMAIN tree.fields
              /\ IF val.kind = "primitive"
                 THEN tree.fields[k] = JsonLeaf(TypeToString(val.type))
                 ELSE IF val.object \in path \cup {object}
                 THEN tree.fields[k] = JsonLeaf(CIRCULAR_REFERENCE)
                 ELSE IF OnCycle(object) /\ IsAcyclic(val.object)
                 THEN tree.fields[k] = WithCyclesReplaced(val.object, {})
                 ELSE \/ "leaf" \in DOMAIN tree.fields[k]
                      \/ CyclesReplacedSiblingsKept(tree.fields[k], val.object,
                                                    path \cup {object})

\* C26: for a self- or mutually referential graph safeStringify returns a
\* string in which every reference that closes a cycle is replaced by
\* "[Circular Reference]" and every non-circular key of the objects on the
\* cycle is present with its value.
C26_CyclesReplacedSiblingsKept ==
    (stringified # Null /\ HasCycle) =>
        CyclesReplacedSiblingsKept(stringified[1], 1, {})

\* C27: with structured formatting in use, formatAsJson and
\* formatForProduction return a string for every entry, also when the payload
\* holds a circular reference or another value JSON serialisation rejects.
C27_StructuredFormattingNeverThrows ==
    /\ (buildPc = "formatted" => ~jsonOut.threw)
    /\ (buildPc = "production" => ~productionOut.threw)

\* ----------------------------------------------------------------------
\* Claims about sendWithRetry (checked under SpecRetry)
\* ----------------------------------------------------------------------
\* Every send attempt of the call failed and the call has thrown.
AllAttemptsFailed == retryPc = "threw"

\* C28 (as stated): when every send attempt fails, each wait is strictly
\* longer than the wait before it, for every retry limit, in both transports.
C28_WaitsStrictlyIncrease ==
    AllAttemptsFailed =>
        \A i \in 1..(Len(retryWaits) - 1) : retryWaits[i] < retryWaits[i + 1]

\* C28 (amended): when every send attempt fails, each wait is strictly
\* longer than the wait before it, unless both are waits of HTTPTransport
\* at its ceiling of 30000 ms; the waits never decrease.
C28_WaitsIncreaseUpToCeiling ==
    AllAttemptsFailed =>
        \A i \in 1..(Len(retryWaits) - 1) :
            \/ retryWaits[i] < retryWaits[i + 1]
            \/ /\ retryClass = "HTTPTransport"
               /\ retryWaits[i] = MAX_BACKOFF_DELAY
               /\ retryWaits[i + 1] = MAX_BACKOFF_DELAY

\* C28 witness: every attempt of an HTTPTransport send failed and the last
\* two waits were both at the ceiling.
C28_Witness ==
    /\ AllAttemptsFailed
    /\ retryClass = "HTTPTransport"
    /\ Len(retryWaits) >= 2
    /\ retryWaits[Len(retryWaits)] = MAX_BACKOFF_DELAY
    /\ retryWaits[Len(retryWaits) - 1] = MAX_BACKOFF_DELAY

\* C29: the backoff delay doubles with each failed attempt and is capped:
\* no wait of either transport exceeds the ceiling (30000 ms, the ceiling
\* the transports define), and each wait is twice the wait before it or the
\* ceiling, whichever is smaller.
C29_WaitsDoubleUpToCeiling ==
    \A i \in 1..Len(retryWaits) :
        /\ retryWaits[i] <= MAX_BACKOFF_DELAY
        /\ i > 1 => retryWaits[i] = Minimum(2 * retryWaits[i - 1], MAX_BACKOFF_DELAY)

\* ----------------------------------------------------------------------
\* Claims about HTTPTransport (checked under SpecFlushTimer)
\* ----------------------------------------------------------------------
\* C30: every flush that proceeds by a trigger other than the timer (the
\* batch-size trigger in write(), flush(), close()) has cancelled the
\* pending flush timer first, so no timeout is pending once it has captured
\* the buffer; and at most one flush timeout is pending at any time.
C30_OtherTriggersCancelTimer ==
    /\ \A i \in 1..Len(flushLog) :
           flushLog[i].by # "timer" => flushLog[i].pendingAfter = {}
    /\ Cardinality(pendingTimeouts) <= 1

\* ----------------------------------------------------------------------
\* Claims about one batch of the HttpTransport (checked under SpecSend)
\* ----------------------------------------------------------------------
\* The attempts that ended because the timeout elapsed.
TimedOutAttempts == {k \in 1..Len(attemptLog) : attemptLog[k].outcome = "timeout"}

\* onSuccess was called.
OnSuccessCalled == \E c \in 1..Len(callbackLog) : callbackLog[c].name = "onSuccess"

SomeAttemptOk == \E k \in 1..Len(attemptLog) : attemptLog[k].outcome = "ok"

\* C32: for the captured batch exactly one completion callback is invoked,
\* once: onSuccess with the number of entries when some attempt received a
\* 2xx response, otherwise onError with the batch; never both, also when
\* onSuccess throws.
C32_ExactlyOneCallback ==
    /\ Len(callbackLog) <= 1
    /\ sendPc = "done" =>
          /\ Len(callbackLog) = 1
          /\ IF SomeAttemptOk
             THEN /\ callbackLog[1].name = "onSuccess"
                  /\ callbackLog[1].count = Len(CapturedBatch)
             ELSE /\ callbackLog[1].name = "onError"
                  /\ callbackLog[1].entries = CapturedBatch

\* ----------------------------------------------------------------------
\* Further claims about HttpTransport (checked under SpecHttp)
\* ----------------------------------------------------------------------
\* No request has been answered with anything but a 2xx status so far: no
\* batch has a failed attempt behind it.
EveryRequestAnswered2xx ==
    \A i \in 1..Len(batches) : batches[i].attempt = 0 /\ batches[i].pc # "sleeping"

\* The requests made for batch i.
RequestsOf(i) == {r \in 1..Len(requests) : requests[r].batch = i}

\* C35: for every batchSize >= 1 and maxRetries >= 0, as long as the
\* endpoint answers every request with a 2xx status, every captured batch is
\* sent in exactly one request and reported through onSuccess, and onError
\* is never invoked.
C35_HealthyEndpointNeverErrors ==
    EveryRequestAnswered2xx =>
        /\ errorCalls = <<>>
        /\ \A i \in 1..Len(batches) :
              /\ batches[i].pc # "rejected"
              /\ Cardinality(RequestsOf(i)) = 1
              /\ batches[i].pc = "done" =>
                    \E c \in 1..Len(successCalls) :
                        /\ successCalls[c].batch = i
                        /\ successCalls[c].count = Len(batches[i].entries)

\* ----------------------------------------------------------------------
\* Further claims about core/logger.ts (checked under SpecCoreThrowing)
\* ----------------------------------------------------------------------
\* A flush timer is pending: the runtime holds a timeout for it.
FlushTimerPending == timers # {}

\* With batching enabled: the buffer is non-empty if and only if a flush
\* timer is pending, if and only if the first-entry time is set, and the
\* pending timer is the one batchState records.
BatchStatePartsAgree ==
    batchConfig.enabled =>
        /\ Len(batchState.buffer) > 0 <=> FlushTimerPending
        /\ Len(batchState.buffer) > 0 <=> batchState.firstEntryTime # Null
        /\ \A t \in timers : batchState.timer = Some(t.id)

\* A step that is a log call, a flush() call or a timer callback that
\* returned (no exception, and not the passing of time).
IsReturnedCall == thrownWrites' = thrownWrites /\ now' = now

\* C33: with batching enabled, after every log call, flush() call and timer
\* callback that has returned, the three parts of the batch state agree; a
\* non-empty buffer is never left without a pending timer.
C33_BatchStatePartsAgree ==
    [][IsReturnedCall => BatchStatePartsAgree']_vars

\* The ids of the entries written to the console, and of those buffered.
WrittenIds == {console[i].id : i \in 1..Len(console)}
BufferedIds == {batchState.buffer[i].id : i \in 1..Len(batchState.buffer)}

\* C34: with batching enabled, whatever the interleaving of log calls,
\* flush() calls and timer firings, and also when a write throws in the
\* middle of a flush, every logged entry is written to the console at most
\* once and none is lost: an entry not yet written is still buffered.
C34_EachEntryWrittenOnce ==
    batchConfig.enabled =>
        /\ \A i, j \in 1..Len(console) : console[i].id = console[j].id => i = j
        /\ \A e \in 1..Len(logged) : e \in WrittenIds \cup BufferedIds

\* ----------------------------------------------------------------------
\* Further claims about formatters/json.ts (checked under SpecBuild)
\* ----------------------------------------------------------------------
\* C36: in the output of formatAsJson the top-level level, message,
\* timestamp, location and requestId are the entry's own fields, and so is
\* scope when the output has one: no payload key replaces or alters them.
C36_FixedFieldsAreTheEntrysOwn ==
    (buildPc = "formatted" /\ jsonOut.indent = 0 /\ ~jsonOut.threw) =>
        /\ \A k \in FixedKeys :
              k \in DOMAIN jsonOut.top /\ jsonOut.top[k] = builtEntry[k]
        /\ "scope" \in DOMAIN jsonOut.top => jsonOut.top["scope"] = builtEntry.scope

\* ----------------------------------------------------------------------
\* Further claims about safeStringify (checked under SpecStringify)
\* ----------------------------------------------------------------------
\* C37: safeStringify emits the placeholder only for a reference that closes
\* a cycle (it points to the object being serialised or to one of its
\* ancestors): the result is the tree of the argument with exactly those
\* references replaced, so an object shared by two keys is serialised in
\* full at both places.
C37_PlaceholderOnlyForCycles ==
    stringified # Null => stringified = Some(WithCyclesReplaced(1, {}))

\* ----------------------------------------------------------------------
\* Claims about transports/file.ts (checked under SpecFile)
\* ----------------------------------------------------------------------
\* The entries of the file are in the order of their write() calls: the
\* entries are numbered by their write() call.
AppendedInCallOrder ==
    \A i, j \in DOMAIN fileContent : i < j => fileContent[i] < fileContent[j]

\* C38: for any interleaving of concurrent write() calls, at most one queued
\* write operation is executing at any time, and the entries are appended to
\* the file in the order in which write() was called.
C38_OneOperationInCallOrder ==
    /\ Cardinality(executing) <= 1
    /\ AppendedInCallOrder

\* A write operation is about to append while a later write() waits in the
\* queue behind it and an earlier one has been appended.
C38_Witness ==
    /\ \E op \in executing : op.step = "writeToFile"
    /\ Len(writeQueue) >= 1
    /\ Len(fileContent) >= 1

\* C39: the promise returned by flush() or close() resolves only after every
\* write queued before the call has been appended and the queue is empty,
\* including when the call is made while another write is being processed.
C39_FlushResolvesAfterWrites ==
    \A i \in DOMAIN flushResults :
        flushResults[i].status = "resolved" =>
            /\ flushResults[i].before \subseteq flushResults[i].appended
            /\ flushResults[i].remaining = {}

====
